---- MODULE Spec2Model ----
(***************************************************************************)
(* json_study: character reader -> lexer -> recursive-descent parser.      *)
(* Characters are Unicode scalar values (integers); a Rust Range a..b is   *)
(* the pair <<a, b>>; a String / Vec<char> is a sequence of characters.    *)
(***************************************************************************)
EXTENDS Integers, Sequences, FiniteSets, TLC

(***************************************************************************)
(* Characters the lexer dispatches on (src/src/lexer/mod.rs).              *)
(***************************************************************************)
QUOTE == 34
BACKSLASH == 92
MINUS == 45
DOT == 46
COLON == 58
COMMA == 44
LBRACE == 123
RBRACE == 125
LBRACKET == 91
RBRACKET == 93
ZERO == 48
NINE == 57
SPACE == 32
NEWLINE == 10
SEMICOLON == 59
PLUS == 43

Ch_a == 97
Ch_b == 98
Ch_e == 101
Ch_E == 69
Ch_f == 102
Ch_k == 107
Ch_l == 108
Ch_n == 110
Ch_r == 114
Ch_s == 115
Ch_t == 116
Ch_u == 117
Ch_v == 118
Ch_x == 120
Ch_y == 121

IsDigit(c) == c >= ZERO /\ c <= NINE

\* '-' | '1'..='9' | '0' : the characters that start a number
IsNumberStart(c) == c = MINUS \/ IsDigit(c)

\* IsNumberChar with the space as well
IsNumberChar_OrSpace(c) == IsNumberStart(c) \/ c \in {DOT, Ch_e, Ch_E, SPACE}

\* IsNumberChar without 'E'
IsNumberChar_NoUpperE(c) == IsNumberStart(c) \/ c = DOT \/ c = Ch_e

\* '-' | '1'..='9' | '0' | '.' | 'e' | 'E' : the characters a number run accumulates
IsNumberChar(c) == IsNumberStart(c) \/ c = DOT \/ c = Ch_e \/ c = Ch_E

IsDelimiter(c) == c \in {COLON, COMMA, LBRACE, RBRACE, LBRACKET, RBRACKET}

\* the characters Lexer::read dispatches to a token rule; every other one is skipped
IsTokenStart(c) == c = QUOTE \/ IsNumberStart(c) \/ c \in {Ch_t, Ch_f, Ch_n} \/ IsDelimiter(c)

(***************************************************************************)
(* CharReader: the buffered character source under the lexer.  i counts    *)
(* the characters decoded from src; pk holds the decoded characters not    *)
(* yet consumed, each with its (line, column); cur counts how many of      *)
(* them peek has handed out; back is the armed pushback slot; (line, col)  *)
(* is the position of the last decoded character.  trace and log are       *)
(* history variables: with trace set, log records every call made to the   *)
(* reader and what it returned.                                            *)
(***************************************************************************)
CharReader_new(src) ==
    [src |-> src, i |-> 0, pk |-> <<>>, cur |-> 0, back |-> FALSE, line |-> 1, col |-> 0,
     trace |-> FALSE, log |-> <<>>]

\* the result r of the reader's operation op, with the call recorded
Logged(r, op) ==
    IF r.rd.trace
    THEN [r EXCEPT !.rd.log = Append(@, [op |-> op, tag |-> r.tag, c |-> r.c,
                                         line |-> r.line, col |-> r.col,
                                         expect |-> FALSE])]
    ELSE r

CROk(rd, e) == [rd |-> rd, tag |-> "Ok", c |-> e[1], line |-> e[2], col |-> e[3]]

CREof(rd) == [rd |-> rd, tag |-> "EOF", c |-> 0, line |-> rd.line, col |-> rd.col]

CRErr(rd) == [rd |-> rd, tag |-> "Err", c |-> 0, line |-> rd.line, col |-> rd.col]

\* an element of the source that decodes to no character (it is no Unicode
\* scalar value): the underlying source reports a failure there
NotAChar == 1114112

\* the source fails at the next character
CR_fails(rd) == rd.src[rd.i + 1] = NotAChar

\* the next character of the source with the position it is read at
CR_entry(rd) == <<rd.src[rd.i + 1], rd.line, rd.col + 1>>

\* position tracking: the column advances by one per character; a newline
\* increments the line and resets the column
CR_advance(rd) ==
    LET c == rd.src[rd.i + 1]
    IN  [rd EXCEPT !.i = rd.i + 1,
                   !.line = IF c = NEWLINE THEN rd.line + 1 ELSE rd.line,
                   !.col = IF c = NEWLINE THEN 0 ELSE rd.col + 1]

CharReader_peek(rd) ==
    Logged(IF rd.cur < Len(rd.pk)
           THEN CROk([rd EXCEPT !.cur = rd.cur + 1, !.back = FALSE], rd.pk[rd.cur + 1])
           ELSE IF rd.i < Len(rd.src)
                THEN IF CR_fails(rd) THEN CRErr(rd)
                     ELSE CROk([CR_advance(rd) EXCEPT !.pk = Append(rd.pk, CR_entry(rd)),
                                                      !.cur = rd.cur + 1, !.back = FALSE],
                               CR_entry(rd))
                ELSE CREof(rd),
           "peek")

CharReader_read(rd) ==
    Logged(IF rd.pk # <<>>
           THEN CROk([rd EXCEPT !.pk = Tail(rd.pk),
                                !.cur = IF rd.cur > 0 THEN rd.cur - 1 ELSE 0,
                                !.back = FALSE],
                     Head(rd.pk))
           ELSE IF rd.i < Len(rd.src)
                THEN IF CR_fails(rd) THEN CRErr(rd)
                     ELSE CROk([CR_advance(rd) EXCEPT !.back = FALSE], CR_entry(rd))
                ELSE CREof(rd),
           "read")

\* un-peek one character; without a pending peeked character, or twice in a
\* row, the caller has broken the contract
CharReader_peek_back(rd) ==
    Logged(IF rd.cur = 0 \/ rd.back
           THEN CRErr(rd)
           ELSE [rd |-> [rd EXCEPT !.cur = rd.cur - 1, !.back = TRUE],
                 tag |-> "Ok", c |-> 0, line |-> rd.line, col |-> rd.col],
           "peek_back")

RECURSIVE CharReader_consume(_, _)
CharReader_consume(rd, n) ==
    IF n = 0
    THEN [rd |-> rd, tag |-> "Ok", c |-> 0, line |-> rd.line, col |-> rd.col]
    ELSE LET r == CharReader_read(rd)
         IN  IF r.tag = "Ok" THEN CharReader_consume(r.rd, n - 1) ELSE r

\* the characters the reader has not handed to a consumer yet
Remaining(rd) ==
    [k \in 1..Len(rd.pk) |-> rd.pk[k][1]] \o SubSeq(rd.src, rd.i + 1, Len(rd.src))

(***************************************************************************)
(* f64 values.  A parsed literal is the exact decimal m * 10^e in the      *)
(* normal form <<m, e>> (m not divisible by 10; zero is <<0, 0>>), which   *)
(* identifies exactly the literals of equal value among the short runs     *)
(* the model draws.                                                        *)
(***************************************************************************)
RECURSIVE F64(_, _)
F64(m, e) ==
    IF m = 0 THEN <<0, 0>>
    ELSE IF m % 10 = 0 THEN F64(m \div 10, e + 1)
    ELSE <<m, e>>

RECURSIVE DigitsEnd(_, _)
\* index just after the maximal run of digits of s that starts at index i
DigitsEnd(s, i) ==
    IF i <= Len(s) /\ IsDigit(s[i]) THEN DigitsEnd(s, i + 1) ELSE i

RECURSIVE DigitsValue(_, _, _)
\* the decimal value of the digits s[i..j-1]
DigitsValue(s, i, j) ==
    IF i >= j THEN 0 ELSE DigitsValue(s, i, j - 1) * 10 + (s[j - 1] - ZERO)

\* str::parse::<f64>: [sign] (digits [. digits*] | . digits) [(e|E) [sign] digits],
\* the whole text; [ok |-> FALSE] is ParseFloatError
ParseF64(s) ==
    LET neg == Len(s) >= 1 /\ s[1] = MINUS
        i0 == IF Len(s) >= 1 /\ s[1] \in {MINUS, PLUS} THEN 2 ELSE 1
        i1 == DigitsEnd(s, i0)
        dot == i1 <= Len(s) /\ s[i1] = DOT
        f0 == IF dot THEN i1 + 1 ELSE i1
        i2 == DigitsEnd(s, f0)
        hasExp == i2 <= Len(s) /\ s[i2] \in {Ch_e, Ch_E}
        eneg == hasExp /\ i2 + 1 <= Len(s) /\ s[i2 + 1] = MINUS
        e0 == IF hasExp /\ i2 + 1 <= Len(s) /\ s[i2 + 1] \in {MINUS, PLUS}
              THEN i2 + 2 ELSE i2 + 1
        i3 == IF hasExp THEN DigitsEnd(s, e0) ELSE i2
        mant == DigitsValue(s, i0, i1) * (IF i2 > f0 THEN 10 ELSE 1) ^ (i2 - f0)
                + DigitsValue(s, f0, i2)
        ex == IF hasExp THEN DigitsValue(s, e0, i3) ELSE 0
        ok == /\ (i1 - i0) + (i2 - f0) >= 1
              /\ hasExp => i3 > e0
              /\ i3 = Len(s) + 1
    IN  IF ok
        THEN [ok |-> TRUE,
              val |-> F64(IF neg THEN 0 - mant ELSE mant,
                          (IF eneg THEN 0 - ex ELSE ex) - (i2 - f0))]
        ELSE [ok |-> FALSE, val |-> <<0, 0>>]

(***************************************************************************)
(* Lexer.  A result carries the reader state after the call and either a   *)
(* token (tag "Ok": data, str, num, line, pos) or a lexer::error::Error    *)
(* (tag "EOF", "UnclosedStringLiteral", "InvalidToken", "InvalidNumber",   *)
(* "ReaderError"); tag "Panic" is a failed expect().                       *)
(***************************************************************************)
Token(rd, line, pos, data, str, num) ==
    [rd |-> rd, tag |-> "Ok", data |-> data, str |-> str, num |-> num,
     line |-> line, pos |-> pos, name |-> ""]

LexError(rd, tag, line, pos, name) ==
    [rd |-> rd, tag |-> tag, data |-> "", str |-> <<>>, num |-> <<0, 0>>,
     line |-> line, pos |-> pos, name |-> name]

\* lexer::error::Error::EOF(line, pos)
LexEOF(r) == LexError(r.rd, "EOF", <<r.line, r.line>>, <<r.col, r.col>>, "")

\* From<char_reader::error::Error>: every other reader error is a ReaderError
LexReaderError(r) == LexError(r.rd, "ReaderError", <<r.line, r.line>>, <<r.col, r.col>>, "")

LexPanic(r) == LexError(r.rd, "Panic", <<r.line, r.line>>, <<r.col, r.col>>, "expect")

\* a reader failure as the lexer reports it (Lexer::next / Lexer::peek map_err)
LexFail(r) == IF r.tag = "EOF" THEN LexEOF(r) ELSE LexReaderError(r)

Lexer_next(rd) == CharReader_read(rd)

\* the call just recorded is one whose result the lexer unwraps with expect()
Expected(r) ==
    IF r.rd.trace
    THEN [r EXCEPT !.rd.log[Len(r.rd.log)].expect = TRUE]
    ELSE r

\* Lexer_discard_next with one more character taken
Lexer_discard_next_Two(rd) == Expected(Lexer_next(Lexer_next(rd).rd))

\* discard_next, and next().expect(..) where the code writes it out
Lexer_discard_next(rd) == Expected(Lexer_next(rd))

\* Lexer_peek with two characters peeked and the second returned
Lexer_peek_Twice(rd) ==
    IF CharReader_peek(rd).tag = "Ok"
    THEN CharReader_peek(CharReader_peek(rd).rd)
    ELSE CharReader_peek(rd)

\* Lexer_peek with the character peeked last returned again while one is pending
Lexer_peek_Again(rd) ==
    IF rd.cur > 0 THEN Logged(CROk(rd, rd.pk[rd.cur]), "peek") ELSE CharReader_peek(rd)

Lexer_peek(rd) == CharReader_peek(rd)

\* Lexer_peek_back with two characters handed back
Lexer_peek_back_Twice(rd) == CharReader_peek_back(CharReader_peek_back(rd).rd)

\* Lexer_peek_back with nothing handed back to the reader
Lexer_peek_back_Nothing(rd) ==
    [rd |-> rd, tag |-> "Ok", c |-> 0, line |-> rd.line, col |-> rd.col]

Lexer_peek_back(rd) == CharReader_peek_back(rd)

\* Unclosed with the reader's EOF passed on as it is
Unclosed_AsEOF(r, il, ip) == LexEOF(r)

\* parse_string at the end of the input: Error::EOF(line, pos) of the reader
\* becomes UnclosedStringLiteral(initial_line..line, initial_pos..pos)
Unclosed(r, il, ip) ==
    LexError(r.rd, "UnclosedStringLiteral", <<il, r.line>>, <<ip, r.col>>, "")

\* IsEscape with no character taken for the escape
IsEscape_Never(c) == FALSE

\* the arm of parse_string's match that drops the character and appends the next
IsEscape(c) == c = BACKSLASH

RECURSIVE StringLoop(_, _, _, _)
\* the loop of parse_string: buf is the text so far, (il, ip) the opening quote
StringLoop(rd, buf, il, ip) ==
    LET p == Lexer_peek(rd)
    IN  IF p.tag = "EOF"
        THEN Unclosed(p, il, ip)
        ELSE IF p.tag # "Ok" THEN LexReaderError(p)
        ELSE IF p.c = QUOTE
             THEN LET d == Lexer_discard_next(p.rd)
                  IN  IF d.tag # "Ok" THEN LexPanic(d)
                      ELSE Token(d.rd, <<il, d.line>>, <<ip, d.col>>, "String", buf, <<0, 0>>)
        ELSE IF IsEscape(p.c)
             THEN LET d == Lexer_discard_next(p.rd)
                      r == Lexer_next(d.rd)
                  IN  IF d.tag # "Ok" THEN LexPanic(d)
                      ELSE IF r.tag = "EOF" THEN Unclosed(r, il, ip)
                      ELSE IF r.tag # "Ok" THEN LexReaderError(r)
                      ELSE StringLoop(r.rd, Append(buf, r.c), il, ip)
        ELSE LET n == Lexer_discard_next(p.rd)
             IN  IF n.tag # "Ok" THEN LexPanic(n)
                 ELSE StringLoop(n.rd, Append(buf, n.c), il, ip)

Lexer_parse_string(rd) ==
    LET d == Lexer_discard_next(rd)
    IN  IF d.tag # "Ok" THEN LexPanic(d)
        ELSE StringLoop(d.rd, <<>>, d.line, d.col)

\* ParseFloatError::to_string() for a text that is not empty
MSG_INVALID_FLOAT == "invalid float literal"

\* NumberToken with the ranges of the error ending where they start
NumberToken_StartOnly(rd, buf, il, ip, fl, fp) ==
    LET f == ParseF64(buf)
    IN  IF f.ok
        THEN Token(rd, <<il, fl>>, <<ip, fp>>, "Number", <<>>, f.val)
        ELSE LexError(rd, "InvalidNumber", <<il, il>>, <<ip, ip>>, MSG_INVALID_FLOAT)

\* the tail of parse_number: the accumulated run is parsed as f64
NumberToken(rd, buf, il, ip, fl, fp) ==
    LET f == ParseF64(buf)
    IN  IF f.ok
        THEN Token(rd, <<il, fl>>, <<ip, fp>>, "Number", <<>>, f.val)
        ELSE LexError(rd, "InvalidNumber", <<il, fl>>, <<ip, fp>>, MSG_INVALID_FLOAT)

RECURSIVE NumberLoop(_, _, _, _, _, _)
\* the loop of parse_number: (fl, fp) is the position of the last accumulated character
NumberLoop(rd, buf, il, ip, fl, fp) ==
    LET p == Lexer_peek(rd)
    IN  IF p.tag = "EOF" THEN NumberToken(p.rd, buf, il, ip, fl, fp)
        ELSE IF p.tag # "Ok" THEN LexReaderError(p)
        ELSE IF IsNumberChar(p.c)
             THEN LET n == Lexer_discard_next(p.rd)
                  IN  IF n.tag # "Ok" THEN LexPanic(n)
                      ELSE NumberLoop(n.rd, Append(buf, n.c), il, ip, n.line, n.col)
        ELSE LET b == Lexer_peek_back(p.rd)
             IN  IF b.tag # "Ok" THEN LexReaderError(b)
                 ELSE NumberToken(b.rd, buf, il, ip, fl, fp)

Lexer_parse_number(rd) ==
    LET n == Lexer_discard_next(rd)
    IN  IF n.tag # "Ok" THEN LexPanic(n)
        ELSE NumberLoop(n.rd, <<n.c>>, n.line, n.col, n.line, n.col)

\* parse_static's table: the characters after the first, the token, the name
StaticSource(K) ==
    IF K = Ch_t THEN <<Ch_r, Ch_u, Ch_e>>
    ELSE IF K = Ch_f THEN <<Ch_a, Ch_l, Ch_s, Ch_e>>
    ELSE <<Ch_u, Ch_l, Ch_l>>

\* StaticData with every keyword giving the True token
StaticData_AlwaysTrue(K) == "True"

StaticData(K) == IF K = Ch_t THEN "True" ELSE IF K = Ch_f THEN "False" ELSE "Null"

\* StaticName with every keyword named "true"
StaticName_AlwaysTrue(K) == "true"

StaticName(K) == IF K = Ch_t THEN "true" ELSE IF K = Ch_f THEN "false" ELSE "null"

RECURSIVE StaticLoop(_, _, _, _, _)
\* the for loop of parse_static over source[k..], then the bulk consume
StaticLoop(rd, K, k, il, ip) ==
    LET source == StaticSource(K)
    IN  IF k > Len(source)
        THEN LET c == CharReader_consume(rd, Len(source))
             IN  IF c.tag # "Ok" THEN LexReaderError(c)
                 ELSE Token(c.rd, <<il, il>>, <<ip, ip + Len(source)>>,
                            StaticData(K), <<>>, <<0, 0>>)
        ELSE LET p == Lexer_peek(rd)
             IN  IF p.tag # "Ok" THEN LexFail(p)
                 ELSE IF source[k] # p.c
                      THEN LexError(p.rd, "InvalidToken", <<il, p.line>>, <<ip, p.col>>,
                                    StaticName(K))
                 ELSE StaticLoop(p.rd, K, k + 1, il, ip)

Lexer_parse_static(rd, K) ==
    LET n == Lexer_next(rd)
    IN  IF n.tag # "Ok" THEN LexFail(n)
        ELSE IF K \notin {Ch_t, Ch_f, Ch_n} THEN LexPanic(n)
        ELSE StaticLoop(n.rd, K, 1, n.line, n.col)

DelimiterData(C) ==
    IF C = COLON THEN "Colon"
    ELSE IF C = COMMA THEN "Comma"
    ELSE IF C = LBRACE THEN "LeftBrace"
    ELSE IF C = RBRACE THEN "RightBrace"
    ELSE IF C = LBRACKET THEN "LeftBracket"
    ELSE "RightBracket"

Lexer_parse_delimiter(rd, C) ==
    LET d == Lexer_discard_next(rd)
    IN  IF ~IsDelimiter(C) \/ d.tag # "Ok" THEN LexPanic(d)
        ELSE Token(d.rd, <<d.line, d.line>>, <<d.col, d.col>>, DelimiterData(C), <<>>, <<0, 0>>)

\* EofAsToken with Error::EOF returned as it is
EofAsToken_Keep(r) == r

\* the last match of Lexer::read: Error::EOF from a token rule becomes the EOF token
EofAsToken(r) ==
    IF r.tag = "EOF"
    THEN Token(r.rd, <<r.line[1], r.line[1]>>, <<r.pos[1], r.pos[1]>>, "EOF", <<>>, <<0, 0>>)
    ELSE r

RECURSIVE Lexer_read(_)
Lexer_read(rd) ==
    LET p == Lexer_peek(rd)
    IN  IF p.tag = "EOF"
        THEN Token(p.rd, <<p.line, p.line>>, <<p.col, p.col>>, "EOF", <<>>, <<0, 0>>)
        ELSE IF p.tag # "Ok" THEN LexReaderError(p)
        ELSE EofAsToken(
               IF p.c = QUOTE THEN Lexer_parse_string(p.rd)
               ELSE IF IsNumberStart(p.c) THEN Lexer_parse_number(p.rd)
               ELSE IF p.c \in {Ch_t, Ch_f, Ch_n} THEN Lexer_parse_static(p.rd, p.c)
               ELSE IF IsDelimiter(p.c) THEN Lexer_parse_delimiter(p.rd, p.c)
               ELSE LET d == Lexer_discard_next(p.rd)
                    IN  IF d.tag # "Ok" THEN LexPanic(d) ELSE Lexer_read(d.rd))

(***************************************************************************)
(* Node: the parse result.  Every node is a record of one shape: kind is   *)
(* the variant, str the text of a String, num the value of a Number,       *)
(* items the elements of an Array or the values of an Object, keys the     *)
(* keys of an Object in BTreeMap order (ascending, unique).                *)
(***************************************************************************)
MkNode(kind, str, num, keys, items) ==
    [kind |-> kind, str |-> str, num |-> num, keys |-> keys, items |-> items]

Node_String(s) == MkNode("String", s, <<0, 0>>, <<>>, <<>>)
Node_Number(n) == MkNode("Number", <<>>, n, <<>>, <<>>)
Node_True == MkNode("True", <<>>, <<0, 0>>, <<>>, <<>>)
Node_False == MkNode("False", <<>>, <<0, 0>>, <<>>, <<>>)
Node_Null == MkNode("Null", <<>>, <<0, 0>>, <<>>, <<>>)
Node_EOF == MkNode("EOF", <<>>, <<0, 0>>, <<>>, <<>>)
Node_Array(items) == MkNode("Array", <<>>, <<0, 0>>, <<>>, items)
Node_Object(keys, items) == MkNode("Object", <<>>, <<0, 0>>, keys, items)
NoNode == MkNode("None", <<>>, <<0, 0>>, <<>>, <<>>)

\* the node kinds parse_object and parse_array accept as a value
ValueKinds == {"String", "Number", "True", "False", "Null", "Object", "Array"}

RECURSIVE StrLess(_, _)
\* String's Ord: lexicographic on the characters
StrLess(a, b) ==
    IF b = <<>> THEN FALSE
    ELSE IF a = <<>> THEN TRUE
    ELSE IF Head(a) # Head(b) THEN Head(a) < Head(b)
    ELSE StrLess(Tail(a), Tail(b))

\* the number of keys of the map that are smaller than key
Rank(keys, key) == Cardinality({k \in 1..Len(keys) : StrLess(keys[k], key)})

\* BTreeInsert with an Occupied entry left as it is (first write wins)
BTreeInsert_KeepFirst(object, key, value) ==
    LET r == Rank(object.keys, key)
    IN  IF \E k \in 1..Len(object.keys) : object.keys[k] = key
        THEN object
        ELSE [keys |-> SubSeq(object.keys, 1, r) \o <<key>>
                       \o SubSeq(object.keys, r + 1, Len(object.keys)),
              items |-> SubSeq(object.items, 1, r) \o <<value>>
                        \o SubSeq(object.items, r + 1, Len(object.items))]

\* object.entry(key): Occupied overwrites the value, Vacant inserts it
BTreeInsert(object, key, value) ==
    LET r == Rank(object.keys, key)
    IN  IF \E k \in 1..Len(object.keys) : object.keys[k] = key
        THEN [object EXCEPT !.items[r + 1] = value]
        ELSE [keys |-> SubSeq(object.keys, 1, r) \o <<key>>
                       \o SubSeq(object.keys, r + 1, Len(object.keys)),
              items |-> SubSeq(object.items, 1, r) \o <<value>>
                        \o SubSeq(object.items, r + 1, Len(object.items))]

\* VecPush with the node put in front
VecPush_Front(array, node) == <<node>> \o array

\* array.push(node)
VecPush(array, node) == Append(array, node)

(***************************************************************************)
(* Parser.  ps is the Parser struct: the lexer (its reader) and the line   *)
(* and pos ranges of the token read last.  A result carries ps after the   *)
(* call and Ok(node), Error::SyntaxError(line, pos, msg) or                *)
(* Error::LexerError (msg is the lexer error's kind, line and pos its      *)
(* ranges, name its text).                                                 *)
(***************************************************************************)
MSG_VALUE == "value must be one of bool, null, String, Number, Object, Array"
MSG_OBJECT_KEY == "Object key must be a String"
MSG_OBJECT_COLON == "Object key must be followed by a colon"
MSG_OBJECT_VALUE == "Object value must be one of bool, null, String, Number, Object, Array"
MSG_OBJECT_NEXT == "Object neither continues with a comma nor ends with a right brace"
MSG_ARRAY_VALUE == "Array element must be one of bool, null, String, Number, Object, Array"
MSG_ARRAY_NEXT == "Array element must be followed by a comma or a right bracket"

\* reads is no field of the struct: it counts the read() calls made on the lexer
Parser_new(reader) ==
    [lexer |-> CharReader_new(reader), line |-> <<1, 1>>, pos |-> <<1, 1>>, reads |-> 0]

POk(ps, node) ==
    [ps |-> ps, tag |-> "Ok", node |-> node, line |-> <<0, 0>>, pos |-> <<0, 0>>,
     msg |-> "", name |-> ""]

\* Parser::syntax_error: the ranges are those the parser remembers
Parser_syntax_error(ps, message) ==
    [ps |-> ps, tag |-> "SyntaxError", node |-> NoNode, line |-> ps.line, pos |-> ps.pos,
     msg |-> message, name |-> ""]

\* LexerError with the lexer's error reported as a SyntaxError
LexerError_AsSyntax(ps, e) ==
    [ps |-> ps, tag |-> IF e.tag = "Panic" THEN "Panic" ELSE "SyntaxError", node |-> NoNode,
     line |-> ps.line, pos |-> ps.pos, msg |-> MSG_VALUE, name |-> ""]

\* From<lexer::error::Error> for Error
LexerError(ps, e) ==
    [ps |-> ps, tag |-> IF e.tag = "Panic" THEN "Panic" ELSE "LexerError", node |-> NoNode,
     line |-> e.line, pos |-> e.pos, msg |-> e.tag, name |-> e.name]

\* TokenRead with the ranges of a lexer error remembered like those of a token
TokenRead_AlwaysTake(ps, r) ==
    [ps |-> [lexer |-> r.rd, line |-> r.line, pos |-> r.pos, reads |-> ps.reads + 1],
     tag |-> IF r.tag = "Ok" THEN "Ok" ELSE "Err", tok |-> r]

\* the map of Parser::read_token over the lexer's result r: a token read
\* updates line and pos, an error leaves them
TokenRead(ps, r) ==
    IF r.tag = "Ok"
    THEN [ps |-> [lexer |-> r.rd, line |-> r.line, pos |-> r.pos, reads |-> ps.reads + 1],
          tag |-> "Ok", tok |-> r]
    ELSE [ps |-> [ps EXCEPT !.lexer = r.rd, !.reads = ps.reads + 1], tag |-> "Err", tok |-> r]

\* Parser::read_token: [ps, tag, tok]
Parser_read_token(ps) == TokenRead(ps, Lexer_read(ps.lexer))

\* ScalarNode with the EOF token wrapped as Node::Null
ScalarNode_EOFAsNull(tok) ==
    IF tok.data = "String" THEN Node_String(tok.str)
    ELSE IF tok.data = "Number" THEN Node_Number(tok.num)
    ELSE IF tok.data = "True" THEN Node_True
    ELSE IF tok.data = "False" THEN Node_False
    ELSE Node_Null

\* the scalar arms of Parser::parse
ScalarNode(tok) ==
    IF tok.data = "String" THEN Node_String(tok.str)
    ELSE IF tok.data = "Number" THEN Node_Number(tok.num)
    ELSE IF tok.data = "True" THEN Node_True
    ELSE IF tok.data = "False" THEN Node_False
    ELSE IF tok.data = "Null" THEN Node_Null
    ELSE Node_EOF

\* ScalarData with the Comma token taken for a value as well
ScalarData_WithComma == {"String", "Number", "True", "False", "Null", "EOF", "Comma"}

\* the token kinds Parser::parse wraps into a node without recursion
ScalarData == {"String", "Number", "True", "False", "Null", "EOF"}

\* the match after an object member: "continue", "break" or "error"
ObjectNext(data) ==
    IF data = "Comma" THEN "continue" ELSE IF data = "RightBrace" THEN "break" ELSE "error"

\* ArrayNext with RightBrace closing the array as well
ArrayNext_BraceCloses(data) ==
    IF data = "Comma" THEN "continue"
    ELSE IF data \in {"RightBracket", "RightBrace"} THEN "break"
    ELSE "error"

\* the match after an array element: "continue", "break" or "error"
ArrayNext(data) ==
    IF data = "Comma" THEN "continue" ELSE IF data = "RightBracket" THEN "break" ELSE "error"

\* IsKeyToken with a Number taken for a key as well
IsKeyToken_OrNumber(data) == data \in {"String", "Number"}

\* the match on the key token of parse_object
IsKeyToken(data) == data = "String"

\* IsColonToken with a Comma taken for the colon as well
IsColonToken_OrComma(data) == data \in {"Colon", "Comma"}

\* the match on the token after the key of parse_object
IsColonToken(data) == data = "Colon"

\* IsValueNode with Node::EOF accepted as a value
IsValueNode_OrEOF(node) == node.kind \in ValueKinds \cup {"EOF"}

\* the match on the node parsed as an object value or an array element
IsValueNode(node) == node.kind \in ValueKinds

RECURSIVE Parser_parse(_)
RECURSIVE ObjectLoop(_, _)
RECURSIVE ArrayLoop(_, _)

\* parse_object after the member is inserted: s is the token read next
ObjectAfterMember(s, object) ==
    IF s.tag # "Ok" THEN LexerError(s.ps, s.tok)
    ELSE IF ObjectNext(s.tok.data) = "continue" THEN ObjectLoop(s.ps, object)
    ELSE IF ObjectNext(s.tok.data) = "break"
         THEN POk(s.ps, Node_Object(object.keys, object.items))
    ELSE Parser_syntax_error(s.ps, MSG_OBJECT_NEXT)

\* parse_object after the colon: v is the result of parse() for the value
ObjectValue(v, key, object) ==
    IF v.tag # "Ok" THEN v
    ELSE IF ~IsValueNode(v.node) THEN Parser_syntax_error(v.ps, MSG_OBJECT_VALUE)
    ELSE ObjectAfterMember(Parser_read_token(v.ps), BTreeInsert(object, key, v.node))

\* parse_object after the key: c is the token read next
ObjectColon(c, key, object) ==
    IF c.tag # "Ok" THEN LexerError(c.ps, c.tok)
    ELSE IF ~IsColonToken(c.tok.data) THEN Parser_syntax_error(c.ps, MSG_OBJECT_COLON)
    ELSE ObjectValue(Parser_parse(c.ps), key, object)

\* parse_object at the head of the loop: k is the token read in key position
ObjectKey(k, object) ==
    IF k.tag # "Ok" THEN LexerError(k.ps, k.tok)
    ELSE IF ~IsKeyToken(k.tok.data) THEN Parser_syntax_error(k.ps, MSG_OBJECT_KEY)
    ELSE ObjectColon(Parser_read_token(k.ps), k.tok.str, object)

\* the loop of parse_object; object is the BTreeMap so far
ObjectLoop(ps, object) == ObjectKey(Parser_read_token(ps), object)

Parser_parse_object(ps) == ObjectLoop(ps, [keys |-> <<>>, items |-> <<>>])

\* parse_array after the element is pushed: s is the token read next
ArrayAfterElement(s, array) ==
    IF s.tag # "Ok" THEN LexerError(s.ps, s.tok)
    ELSE IF ArrayNext(s.tok.data) = "continue" THEN ArrayLoop(s.ps, array)
    ELSE IF ArrayNext(s.tok.data) = "break" THEN POk(s.ps, Node_Array(array))
    ELSE Parser_syntax_error(s.ps, MSG_ARRAY_NEXT)

\* parse_array at the head of the loop: v is the result of parse() for the element
ArrayElement(v, array) ==
    IF v.tag # "Ok" THEN v
    ELSE IF ~IsValueNode(v.node) THEN Parser_syntax_error(v.ps, MSG_ARRAY_VALUE)
    ELSE ArrayAfterElement(Parser_read_token(v.ps), VecPush(array, v.node))

\* the loop of parse_array; array is the Vec so far
ArrayLoop(ps, array) == ArrayElement(Parser_parse(ps), array)

Parser_parse_array(ps) == ArrayLoop(ps, <<>>)

\* the match of Parser::parse on the token read
ParseToken(t) ==
    IF t.tag # "Ok" THEN LexerError(t.ps, t.tok)
    ELSE IF t.tok.data = "LeftBrace" THEN Parser_parse_object(t.ps)
    ELSE IF t.tok.data = "LeftBracket" THEN Parser_parse_array(t.ps)
    ELSE IF t.tok.data \in ScalarData THEN POk(t.ps, ScalarNode(t.tok))
    ELSE Parser_syntax_error(t.ps, MSG_VALUE)

Parser_parse(ps) == ParseToken(Parser_read_token(ps))

(***************************************************************************)
(* Inputs.  A document is drawn as a tree (an object is its member list,   *)
(* duplicate keys included; a scalar carries its literal text lex) and     *)
(* written out as a sequence of lexemes; one lexeme of a document may be   *)
(* replaced by another one, or the input cut off there.                    *)
(***************************************************************************)
\* the largest number of nodes of the documents of one input
MaxNodes == 3

\* the largest number of parse() calls of one session
MaxCalls == 4

MkTree(kind, lex, str, num, keys, items) ==
    [kind |-> kind, lex |-> lex, str |-> str, num |-> num, keys |-> keys, items |-> items]

Lit_a == MkTree("String", <<QUOTE, Ch_a, QUOTE>>, <<Ch_a>>, <<0, 0>>, <<>>, <<>>)
Lit_1 == MkTree("Number", <<ZERO + 1>>, <<>>, <<1, 0>>, <<>>, <<>>)
Lit_m2e1 == MkTree("Number", <<MINUS, ZERO + 2, Ch_e, ZERO + 1>>, <<>>, <<-2, 1>>, <<>>, <<>>)
Lit_true == MkTree("True", <<Ch_t, Ch_r, Ch_u, Ch_e>>, <<>>, <<0, 0>>, <<>>, <<>>)
Lit_false == MkTree("False", <<Ch_f, Ch_a, Ch_l, Ch_s, Ch_e>>, <<>>, <<0, 0>>, <<>>, <<>>)
Lit_null == MkTree("Null", <<Ch_n, Ch_u, Ch_l, Ch_l>>, <<>>, <<0, 0>>, <<>>, <<>>)

\* the scalars of the well-formed documents
Scalars == {Lit_a, Lit_1, Lit_m2e1, Lit_true, Lit_false, Lit_null}

\* the scalars of the documents a lexeme is replaced in
FewScalars == {Lit_a, Lit_1}

Keys == {<<Ch_a>>, <<Ch_b>>}

RECURSIVE TreesOfSize(_, _, _)
RECURSIVE ForestsOfSize(_, _, _)

\* the sequences of trees over the scalars S with m nodes in all
ForestsOfSize(S, m, empties) ==
    IF m = 0 THEN {<<>>}
    ELSE UNION {{<<t>> \o f : t \in TreesOfSize(S, n, empties),
                              f \in ForestsOfSize(S, m - n, empties)} : n \in 1..m}

\* the trees over the scalars S with n nodes; empties admits [] and {}
TreesOfSize(S, n, empties) ==
    IF n = 1
    THEN S \cup (IF empties
                 THEN {MkTree("Array", <<>>, <<>>, <<0, 0>>, <<>>, <<>>),
                       MkTree("Object", <<>>, <<>>, <<0, 0>>, <<>>, <<>>)}
                 ELSE {})
    ELSE LET F == ForestsOfSize(S, n - 1, empties)
         IN  {MkTree("Array", <<>>, <<>>, <<0, 0>>, <<>>, f) : f \in F}
             \cup UNION {{MkTree("Object", <<>>, <<>>, <<0, 0>>, ks, f) :
                              ks \in [1..Len(f) -> Keys]} : f \in F}

RECURSIVE Concat(_)
\* the concatenation of a sequence of sequences
Concat(ss) == IF ss = <<>> THEN <<>> ELSE Head(ss) \o Concat(Tail(ss))

RECURSIVE Lexemes(_)
\* the lexemes of a tree, in input order
Lexemes(t) ==
    IF t.kind = "Array"
    THEN <<(<<LBRACKET>>)>>
         \o Concat([k \in 1..Len(t.items) |->
                       (IF k > 1 THEN <<(<<COMMA>>)>> ELSE <<>>) \o Lexemes(t.items[k])])
         \o <<(<<RBRACKET>>)>>
    ELSE IF t.kind = "Object"
    THEN <<(<<LBRACE>>)>>
         \o Concat([k \in 1..Len(t.items) |->
                       (IF k > 1 THEN <<(<<COMMA>>)>> ELSE <<>>)
                       \o <<(<<QUOTE>> \o t.keys[k] \o <<QUOTE>>), (<<COLON>>)>>
                       \o Lexemes(t.items[k])])
         \o <<(<<RBRACE>>)>>
    ELSE <<t.lex>>

RECURSIVE Roles(_, _)
\* the grammar position of each lexeme of a tree whose first lexeme stands at role:
\* "top", "elem" and "member" are the value positions (top level, array
\* element, object value), "key", "colon", "objnext" and "arrnext" the others
Roles(t, role) ==
    IF t.kind = "Array"
    THEN <<role>>
         \o Concat([k \in 1..Len(t.items) |->
                       (IF k > 1 THEN <<"arrnext">> ELSE <<>>) \o Roles(t.items[k], "elem")])
         \o <<"arrnext">>
    ELSE IF t.kind = "Object"
    THEN <<role>>
         \o Concat([k \in 1..Len(t.items) |->
                       (IF k > 1 THEN <<"objnext">> ELSE <<>>)
                       \o <<"key", "colon">> \o Roles(t.items[k], "member")])
         \o <<"objnext">>
    ELSE <<role>>

\* the input text of a sequence of lexemes: pad puts a space between any two
RECURSIVE Text(_, _)
Text(ls, pad) ==
    IF ls = <<>> THEN <<>>
    ELSE IF Len(ls) = 1 THEN Head(ls)
    ELSE Head(ls) \o (IF pad THEN <<SPACE>> ELSE <<>>) \o Text(Tail(ls), pad)

\* the input text of a sequence of documents: whitespace between any two
RECURSIVE DocsText(_, _)
DocsText(ds, pad) ==
    IF ds = <<>> THEN <<>>
    ELSE IF Len(ds) = 1 THEN Text(Lexemes(Head(ds)), pad)
    ELSE Text(Lexemes(Head(ds)), pad) \o <<SPACE>> \o DocsText(Tail(ds), pad)

\* the lexemes put in place of a lexeme of a document; <<>> cuts the input off
Replacements ==
    {<<>>, <<COLON>>, <<COMMA>>, <<LBRACE>>, <<RBRACE>>, <<LBRACKET>>, <<RBRACKET>>,
     <<QUOTE, Ch_b, QUOTE>>, <<ZERO + 2>>, <<Ch_t, Ch_r, Ch_u, Ch_e>>,
     <<Ch_f, Ch_a, Ch_l, Ch_s, Ch_e>>, <<Ch_n, Ch_u, Ch_l, Ch_l>>,
     <<SPACE>>, <<SEMICOLON>>, <<NEWLINE>>,
     <<Ch_t, Ch_r, Ch_u>>, <<Ch_t, Ch_x>>, <<QUOTE, Ch_a>>, <<MINUS>>, <<ZERO + 1, DOT>>,
     <<NotAChar>>}

\* the lexemes of a document with the one at index at replaced by lex
Replaced(ls, at, lex) ==
    IF at = 0 THEN ls
    ELSE IF lex = <<>> THEN SubSeq(ls, 1, at - 1)
    ELSE SubSeq(ls, 1, at - 1) \o <<lex>> \o SubSeq(ls, at + 1, Len(ls))

\* what follows the last document of a well-formed input: nothing, or
\* characters the lexer skips
Tails == {<<>>, <<SPACE, SEMICOLON, NEWLINE>>}

\* the input of a session: well-formed documents and a tail, or one document
\* with one lexeme replaced
InputOf(g) ==
    IF g.at = 0 THEN DocsText(g.docs, g.pad) \o g.tail
    ELSE Text(Replaced(Lexemes(g.docs[1]), g.at, g.lex), g.pad)

\* g draws well-formed documents of at most MaxNodes nodes in all
WellFormedInput(g) ==
    \E m \in 1..MaxNodes : \E f \in ForestsOfSize(Scalars, m, TRUE) :
        \E p \in BOOLEAN : \E tl \in Tails :
            g = [docs |-> f, at |-> 0, lex |-> <<>>, pad |-> p, tail |-> tl]

\* g draws one document of at most MaxNodes nodes, no container of it empty,
\* and replaces one lexeme of it
ReplacedInput(g) ==
    \E n \in 1..MaxNodes : \E t \in TreesOfSize(FewScalars, n, FALSE) :
        \E i \in 1..Len(Lexemes(t)) : \E x \in Replacements : \E p \in BOOLEAN :
            g = [docs |-> <<t>>, at |-> i, lex |-> x, pad |-> p, tail |-> <<>>]

(***************************************************************************)
(* A session: one Parser over one input, parse() called again and again.   *)
(***************************************************************************)
VARIABLES
    parser,   \* the Parser struct
    hist,     \* the result of every parse() call so far, oldest first
    gen,      \* how the input was drawn: docs, at, lex, pad, tail
    lexer,    \* a Lexer used on its own: its reader
    toks,     \* the result of every read() call on lexer so far, oldest first
    padded,   \* a second Parser, over the input with characters inserted
    padHist   \* the result of every parse() call on padded so far

vars == <<parser, hist, gen, lexer, toks, padded, padHist>>

\* no Lexer is used on its own
NoLexer == lexer = CharReader_new(<<>>) /\ toks = <<>>

\* no second Parser is used
NoPadded == padded = Parser_new(<<>>) /\ padHist = <<>>

Init ==
    /\ WellFormedInput(gen) \/ ReplacedInput(gen)
    /\ parser = Parser_new(InputOf(gen))
    /\ hist = <<>>
    /\ NoLexer
    /\ NoPadded

\* what a caller sees of a parse() call, and rest, the input left after it
Outcome(r) ==
    [tag |-> r.tag, node |-> r.node, line |-> r.line, pos |-> r.pos, msg |-> r.msg,
     name |-> r.name, rest |-> Remaining(r.ps.lexer)]

\* parse() returns r: the parser is left as the call left it
Returned(r) ==
    /\ parser' = r.ps
    /\ hist' = Append(hist, Outcome(r))

\* one call of Parser::parse; a panic ends the session
Parse ==
    /\ Len(hist) < MaxCalls
    /\ \A k \in 1..Len(hist) : hist[k].tag # "Panic"
    /\ Returned(Parser_parse(parser))
    /\ UNCHANGED <<gen, lexer, toks, padded, padHist>>

Next == Parse

Spec == Init /\ [][Next]_vars

(***************************************************************************)
(* The reference: what a drawn input is, told without the lexer and the    *)
(* parser.                                                                 *)
(***************************************************************************)
\* the keys of a member list, ascending
RECURSIVE SortedKeys(_)
SortedKeys(K) ==
    IF K = {} THEN <<>>
    ELSE LET least == CHOOSE k \in K : \A j \in K \ {k} : StrLess(k, j)
         IN  <<least>> \o SortedKeys(K \ {least})

\* the index of the last member of the object tree t with the key key
LastMember(t, key) ==
    CHOOSE k \in 1..Len(t.keys) :
        t.keys[k] = key /\ \A j \in (k + 1)..Len(t.keys) : t.keys[j] # key

RECURSIVE Ref(_)
\* the reference tree of a document: an object maps each of its keys to the
\* value of the key's last member
Ref(t) ==
    IF t.kind = "Array"
    THEN Node_Array([k \in 1..Len(t.items) |-> Ref(t.items[k])])
    ELSE IF t.kind = "Object"
    THEN LET ks == SortedKeys({t.keys[k] : k \in 1..Len(t.keys)})
         IN  Node_Object(ks, [k \in 1..Len(ks) |-> Ref(t.items[LastMember(t, ks[k])])])
    ELSE MkNode(t.kind, t.str, t.num, <<>>, <<>>)

RECURSIVE HasEmpty(_)
\* the tree holds a container without members
HasEmpty(t) ==
    /\ t.kind \in {"Array", "Object"}
    /\ \/ t.items = <<>>
       \/ \E k \in 1..Len(t.items) : HasEmpty(t.items[k])

\* the token a lexeme is, when it is one whatever surrounds it
LexemeKind(l) ==
    IF l = <<>> THEN "EOF"
    ELSE IF l \in {<<SPACE>>, <<SEMICOLON>>, <<NEWLINE>>} THEN "Skip"
    ELSE IF l = <<COLON>> THEN "Colon"
    ELSE IF l = <<COMMA>> THEN "Comma"
    ELSE IF l = <<LBRACE>> THEN "LeftBrace"
    ELSE IF l = <<RBRACE>> THEN "RightBrace"
    ELSE IF l = <<LBRACKET>> THEN "LeftBracket"
    ELSE IF l = <<RBRACKET>> THEN "RightBracket"
    ELSE IF l \in {<<QUOTE, Ch_a, QUOTE>>, <<QUOTE, Ch_b, QUOTE>>} THEN "String"
    ELSE IF l \in {<<ZERO + 1>>, <<ZERO + 2>>} THEN "Number"
    ELSE IF l = <<Ch_t, Ch_r, Ch_u, Ch_e>> THEN "True"
    ELSE IF l = <<Ch_f, Ch_a, Ch_l, Ch_s, Ch_e>> THEN "False"
    ELSE IF l = <<Ch_n, Ch_u, Ch_l, Ch_l>> THEN "Null"
    ELSE "Other"

\* the lexemes of the input of a session with a replaced lexeme
GenLexemes == Replaced(Lexemes(gen.docs[1]), gen.at, gen.lex)

\* the grammar position of the replaced lexeme
GenRole == Roles(gen.docs[1], "top")[gen.at]

\* the kind of the token that stands at the replaced position: the first
\* lexeme from there on that is not skipped, EOF when there is none
GenKind ==
    LET ls == GenLexemes
        J == {j \in gen.at..Len(ls) : LexemeKind(ls[j]) # "Skip"}
    IN  IF J = {} THEN "EOF"
        ELSE LexemeKind(ls[CHOOSE j \in J : \A i \in J : j <= i])

\* the input has a replaced lexeme, the first parse() call is made, and the
\* token at the replaced position is known: it is no lexeme that lexes by its
\* surroundings, and no number written right after a number
Replaced1 ==
    /\ gen.at > 0
    /\ Len(hist) >= 1
    /\ GenKind # "Other"
    /\ ~(/\ ~gen.pad
         /\ gen.at > 1
         /\ LexemeKind(gen.lex) = "Number"
         /\ LexemeKind(GenLexemes[gen.at - 1]) = "Number")

\* the calls 1..i-1 of a session over well-formed documents each returned a value
Aligned(i) ==
    /\ gen.at = 0
    /\ i <= Len(hist)
    /\ i <= Len(gen.docs)
    /\ \A j \in 1..(i - 1) : hist[j].tag = "Ok" /\ hist[j].node.kind \in ValueKinds

IsOkValue(h) == h.tag = "Ok" /\ h.node.kind \in ValueKinds

IsOkEOF(h) == h.tag = "Ok" /\ h.node = Node_EOF

AllSkippable(rest) == \A k \in 1..Len(rest) : ~IsTokenStart(rest[k])

(***************************************************************************)
(* The claims.                                                             *)
(***************************************************************************)
\* C1: for every well-formed document, containers without members included,
\* parse() returns Ok with the reference tree of the document (the same object
\* key sets, array lengths and element order, and scalar values).
C1_WellFormedParses ==
    (gen.at = 0 /\ Len(hist) >= 1) =>
        (hist[1].tag = "Ok" /\ hist[1].node = Ref(gen.docs[1]))

\* C2: once a parse() call has returned a value and only characters the lexer
\* skips are left of the input, every later parse() call returns Ok(Node::EOF).
C2_EOFAfterLastValue ==
    \A i \in 1..Len(hist) : \A j \in (i + 1)..Len(hist) :
        (IsOkValue(hist[i]) /\ AllSkippable(hist[i].rest)) => IsOkEOF(hist[j])

\* a value was returned with skipped characters left, and two later calls made
C2_Witness ==
    \E i \in 1..Len(hist) :
        /\ IsOkValue(hist[i])
        /\ hist[i].rest # <<>>
        /\ AllSkippable(hist[i].rest)
        /\ Len(hist) >= i + 2

\* C3: over k >= 1 well-formed values separated by whitespace, the i-th call
\* of parse() returns the i-th value and leaves the text of the values after
\* it unread, and the (k+1)-th call returns Node::EOF.
C3_EachCallNextValue ==
    gen.at = 0 =>
        \A i \in 1..Len(hist) :
            /\ i <= Len(gen.docs) =>
                   /\ hist[i].tag = "Ok"
                   /\ hist[i].node = Ref(gen.docs[i])
                   /\ \E n \in 0..1 :
                          SubSeq(hist[i].rest, n + 1, Len(hist[i].rest))
                              = DocsText(SubSeq(gen.docs, i + 1, Len(gen.docs)), gen.pad)
                                \o gen.tail
            /\ i = Len(gen.docs) + 1 => IsOkEOF(hist[i])

RECURSIVE UniqueKeys(_)
\* no Object of the node holds a key twice
UniqueKeys(n) ==
    /\ \A p \in 1..Len(n.keys) : \A q \in 1..Len(n.keys) : n.keys[p] = n.keys[q] => p = q
    /\ \A k \in 1..Len(n.items) : UniqueKeys(n.items[k])

RECURSIVE LastWins(_, _)
\* every Object of the node n holds each key of its source object once, with
\* the value of the last member of that key
LastWins(t, n) ==
    IF t.kind = "Object"
    THEN /\ n.kind = "Object"
         /\ \A k \in 1..Len(t.keys) :
                /\ Cardinality({p \in 1..Len(n.keys) : n.keys[p] = t.keys[k]}) = 1
                /\ \A p \in 1..Len(n.keys) :
                       n.keys[p] = t.keys[k] =>
                           /\ n.items[p] = Ref(t.items[LastMember(t, t.keys[k])])
                           /\ LastWins(t.items[LastMember(t, t.keys[k])], n.items[p])
    ELSE IF t.kind = "Array"
    THEN /\ n.kind = "Array"
         /\ Len(n.items) = Len(t.items)
         /\ \A k \in 1..Len(t.items) : LastWins(t.items[k], n.items[k])
    ELSE TRUE

\* C4: a key that occurs several times in one object does not make parse()
\* fail: the Object holds the key once, with the value of its last occurrence;
\* the keys of every returned Object are unique.  (Documents with a container
\* without members are the case of C1.)
C4_LastWriteWins ==
    /\ \A i \in 1..Len(hist) : hist[i].tag = "Ok" => UniqueKeys(hist[i].node)
    /\ \A i \in 1..Len(hist) :
           (Aligned(i) /\ ~HasEmpty(gen.docs[i])) =>
               (hist[i].tag = "Ok" /\ LastWins(gen.docs[i], hist[i].node))

\* an object with one key twice, with two different values, was parsed
C4_Witness ==
    \E i \in 1..Len(hist) :
        /\ Aligned(i)
        /\ hist[i].tag = "Ok"
        /\ gen.docs[i].kind = "Object"
        /\ Len(gen.docs[i].keys) = 2
        /\ gen.docs[i].keys[1] = gen.docs[i].keys[2]
        /\ Ref(gen.docs[i].items[1]) # Ref(gen.docs[i].items[2])
        /\ Len(hist[i].node.keys) = 1

RECURSIVE ArraysKept(_, _)
\* every Array of the node n holds the elements of its source array, in order
ArraysKept(t, n) ==
    IF t.kind = "Array"
    THEN /\ n.kind = "Array"
         /\ Len(n.items) = Len(t.items)
         /\ \A k \in 1..Len(t.items) :
                n.items[k] = Ref(t.items[k]) /\ ArraysKept(t.items[k], n.items[k])
    ELSE IF t.kind = "Object"
    THEN /\ n.kind = "Object"
         /\ \A p \in 1..Len(n.keys) :
                /\ \E k \in 1..Len(t.keys) : t.keys[k] = n.keys[p]
                /\ ArraysKept(t.items[LastMember(t, n.keys[p])], n.items[p])
    ELSE TRUE

\* C5: every Array node parse() returns holds exactly the elements of the
\* source array, in input order.
C5_ArrayOrder ==
    \A i \in 1..Len(hist) :
        (Aligned(i) /\ hist[i].tag = "Ok") => ArraysKept(gen.docs[i], hist[i].node)

\* an array of two different elements was parsed
C5_Witness ==
    \E i \in 1..Len(hist) :
        /\ Aligned(i)
        /\ hist[i].tag = "Ok"
        /\ gen.docs[i].kind = "Array"
        /\ Len(gen.docs[i].items) = 2
        /\ Ref(gen.docs[i].items[1]) # Ref(gen.docs[i].items[2])
        /\ Len(hist[i].node.items) = 2

\* C6: in an object, a token in key position (after `{` or after `,`) that is
\* no String - Colon, Comma, RightBrace, a number, a keyword, EOF - makes
\* parse() fail with the SyntaxError "Object key must be a String".
C6_KeyMustBeString ==
    (Replaced1 /\ GenRole = "key" /\ GenKind # "String") =>
        (hist[1].tag = "SyntaxError" /\ hist[1].msg = MSG_OBJECT_KEY)

\* a key after a `,` was replaced by a token that is no String
C6_Witness ==
    /\ Replaced1
    /\ GenRole = "key"
    /\ gen.at > 2
    /\ GenKind \in {"Number", "RightBrace", "EOF"}
    /\ hist[1].tag = "SyntaxError"

\* C7: in an object, a token right after a String key that is no Colon makes
\* parse() fail with the SyntaxError "Object key must be followed by a colon".
C7_ColonAfterKey ==
    (Replaced1 /\ GenRole = "colon" /\ GenKind # "Colon") =>
        (hist[1].tag = "SyntaxError" /\ hist[1].msg = MSG_OBJECT_COLON)

\* the colon after a key was replaced by a String, a Comma or the end of input
C7_Witness ==
    /\ Replaced1
    /\ GenRole = "colon"
    /\ GenKind \in {"String", "Comma", "EOF"}
    /\ hist[1].tag = "SyntaxError"

RECURSIVE NoEOFInside(_)
\* Node::EOF is no element and no value anywhere in the node
NoEOFInside(n) ==
    \A k \in 1..Len(n.items) : n.items[k].kind # "EOF" /\ NoEOFInside(n.items[k])

\* C8: when the input ends where an array element or an object value is
\* expected, parse() fails with the SyntaxError of the array element or of the
\* object value; Node::EOF is never an element of an Array or a value of an
\* Object of a returned tree.
C8_NoEOFValue ==
    /\ (Replaced1 /\ GenRole = "elem" /\ GenKind = "EOF") =>
           (hist[1].tag = "SyntaxError" /\ hist[1].msg = MSG_ARRAY_VALUE)
    /\ (Replaced1 /\ GenRole = "member" /\ GenKind = "EOF") =>
           (hist[1].tag = "SyntaxError" /\ hist[1].msg = MSG_OBJECT_VALUE)
    /\ \A i \in 1..Len(hist) : hist[i].tag = "Ok" => NoEOFInside(hist[i].node)

\* the input was cut off where an object value was expected
C8_Witness ==
    /\ Replaced1
    /\ GenRole = "member"
    /\ GenKind = "EOF"
    /\ hist[1].msg = MSG_OBJECT_VALUE

\* C9: a Colon, Comma, RightBrace or RightBracket where a value is expected
\* (top level, array element, object value) makes parse() fail with the
\* SyntaxError "value must be one of ..."; no node is returned for it.
C9_DelimiterAsValue ==
    (/\ Replaced1
     /\ GenRole \in {"top", "elem", "member"}
     /\ GenKind \in {"Colon", "Comma", "RightBrace", "RightBracket"}) =>
        (hist[1].tag = "SyntaxError" /\ hist[1].msg = MSG_VALUE)

\* a RightBracket stood where an array element was expected
C9_Witness ==
    /\ Replaced1
    /\ GenRole = "elem"
    /\ GenKind = "RightBracket"
    /\ hist[1].msg = MSG_VALUE

\* C10: after an object value every token but Comma and RightBrace, and after
\* an array element every token but Comma and RightBracket - EOF and the
\* closing token of the other container included - makes parse() fail with a
\* SyntaxError.
C10_SeparatorOrClose ==
    /\ (Replaced1 /\ GenRole = "objnext" /\ GenKind \notin {"Comma", "RightBrace"}) =>
           (hist[1].tag = "SyntaxError" /\ hist[1].msg = MSG_OBJECT_NEXT)
    /\ (Replaced1 /\ GenRole = "arrnext" /\ GenKind \notin {"Comma", "RightBracket"}) =>
           (hist[1].tag = "SyntaxError" /\ hist[1].msg = MSG_ARRAY_NEXT)

\* a RightBrace stood after an array element
C10_Witness ==
    /\ Replaced1
    /\ GenRole = "arrnext"
    /\ GenKind = "RightBrace"
    /\ hist[1].msg = MSG_ARRAY_NEXT

(***************************************************************************)
(* A lexer session: one Lexer over one input, read() called again and      *)
(* again.  The input is pre \o body \o post: body is a number run, a       *)
(* number literal, a string literal or a keyword attempt; pre and post     *)
(* hold delimiters and characters the lexer skips.                         *)
(***************************************************************************)
\* the longest number run drawn character by character
MaxRun == 3

\* the largest number of items of the body of a string literal
MaxItems == 2

\* the largest number of read() calls of one session
MaxReads == 5

\* the character of the decimal digit n
Digit(n) == ZERO + n

\* the characters of the drawn number runs
RunChars == {MINUS, ZERO, Digit(1), DOT, Ch_e, Ch_E}

\* the runs of at most MaxRun number characters that start a number
Runs == UNION {{r \in [1..n -> RunChars] : IsNumberStart(r[1])} : n \in 1..MaxRun}

\* 3.14.14, -3E14E1 and --11223 of test_parse_invalid_number
TestRuns ==
    {<<Digit(3), DOT, Digit(1), Digit(4), DOT, Digit(1), Digit(4)>>,
     <<MINUS, Digit(3), Ch_E, Digit(1), Digit(4), Ch_E, Digit(1)>>,
     <<MINUS, MINUS, Digit(1), Digit(1), Digit(2), Digit(2), Digit(3)>>}

\* the parts of a number literal: sign, integer digits, fraction digits (none:
\* no fraction), exponent <<mark, negative, digits>> (<<>>: no exponent)
IntParts == {<<0>>, <<1>>, <<2>>, <<3>>, <<1, 2, 3>>}

FracParts == {<<>>, <<5>>, <<0, 1>>, <<1, 4>>}

ExpParts == {<<>>, <<Ch_e, FALSE, <<6>>>>, <<Ch_E, TRUE, <<3>>>>, <<Ch_e, TRUE, <<1, 0>>>>}

Literals == [neg : BOOLEAN, int : IntParts, frac : FracParts, exp : ExpParts]

\* the characters of a sequence of decimal digits
DigitChars(ds) == [k \in 1..Len(ds) |-> Digit(ds[k])]

\* the text of a number literal
Render(lit) ==
    (IF lit.neg THEN <<MINUS>> ELSE <<>>)
    \o DigitChars(lit.int)
    \o (IF lit.frac = <<>> THEN <<>> ELSE <<DOT>> \o DigitChars(lit.frac))
    \o (IF lit.exp = <<>> THEN <<>>
        ELSE <<lit.exp[1]>> \o (IF lit.exp[2] THEN <<MINUS>> ELSE <<>>)
             \o DigitChars(lit.exp[3]))

\* the items of the body of a string literal: src is what is written, out
\* what the claim says the token text gets for it
StrItems ==
    {[src |-> <<Ch_a>>, out |-> <<Ch_a>>],
     [src |-> <<COMMA>>, out |-> <<COMMA>>],
     [src |-> <<NEWLINE>>, out |-> <<NEWLINE>>],
     [src |-> <<Ch_t, Ch_r, Ch_u, Ch_e>>, out |-> <<Ch_t, Ch_r, Ch_u, Ch_e>>],
     [src |-> <<BACKSLASH, QUOTE>>, out |-> <<QUOTE>>],
     [src |-> <<BACKSLASH, BACKSLASH>>, out |-> <<BACKSLASH>>],
     [src |-> <<BACKSLASH, Ch_n>>, out |-> <<Ch_n>>]}

\* how a string literal ends: with its closing quote, with the input, or
\* with a backslash and the input
StrEnds == {"closed", "cut", "cutslash"}

ItemSeqs == UNION {[1..n -> StrItems] : n \in 0..MaxItems}

\* the text of a string literal
StringText(items, end) ==
    <<QUOTE>> \o Concat([k \in 1..Len(items) |-> items[k].src])
    \o (IF end = "closed" THEN <<QUOTE>>
        ELSE IF end = "cutslash" THEN <<BACKSLASH>> ELSE <<>>)

\* the characters put where a keyword's next character is expected
WrongChars == {Ch_x, SPACE, NEWLINE, COMMA, QUOTE, Ch_t}

\* the text of a keyword attempt: the first character K, j characters of the
\* rest of the keyword, and then a wrong character (0: nothing)
KeywordText(K, j, wrong) ==
    <<K>> \o SubSeq(StaticSource(K), 1, j) \o (IF wrong = 0 THEN <<>> ELSE <<wrong>>)

\* what stands before the body: nothing, skipped characters, a delimiter
Pres == {<<>>, <<SPACE>>, <<NEWLINE, Ch_x>>, <<COMMA>>}

\* what stands after the body
Posts == {<<>>, <<SPACE>>, <<COMMA, Ch_x>>}

LexGen(kind, pre, body, post, d) ==
    [kind |-> kind, pre |-> pre, body |-> body, post |-> post, d |-> d]

\* g draws a number run
RunInput(g) ==
    \E r \in Runs \cup TestRuns : \E pre \in Pres : \E post \in Posts :
        g = LexGen("run", pre, r, post, <<>>)

\* g draws a number literal
LiteralInput(g) ==
    \E lit \in Literals : \E pre \in Pres : \E post \in Posts :
        g = LexGen("literal", pre, Render(lit), post, lit)

\* g draws a string literal; nothing follows one the input ends in
StringInput(g) ==
    \E items \in ItemSeqs : \E end \in StrEnds : \E pre \in Pres : \E post \in Posts :
        /\ end # "closed" => post = <<>>
        /\ g = LexGen("string", pre, StringText(items, end), post,
                      [items |-> items, end |-> end])

\* g draws a keyword attempt: the whole keyword, or j of its characters and
\* then a wrong character or the end of the input
KeywordInput(g) ==
    \E K \in {Ch_t, Ch_f, Ch_n} : \E j \in 0..Len(StaticSource(K)) :
        \E wrong \in WrongChars \cup {0} : \E pre \in Pres : \E post \in Posts :
            /\ j = Len(StaticSource(K)) => wrong = 0
            /\ (j < Len(StaticSource(K)) /\ wrong = 0) => post = <<>>
            /\ g = LexGen("keyword", pre, KeywordText(K, j, wrong), post,
                          [K |-> K, j |-> j, wrong |-> wrong])

\* a lexeme as it is written, with the token it stands for
Piece(sep, text, data) == [sep |-> sep, text |-> text, data |-> data]

\* the lexemes of the drawn token sequences
PieceLexemes ==
    {<<<<LBRACE>>, "LeftBrace">>, <<<<RBRACKET>>, "RightBracket">>,
     <<<<COLON>>, "Colon">>, <<<<COMMA>>, "Comma">>,
     <<<<QUOTE, Ch_a, QUOTE>>, "String">>,
     <<<<QUOTE, Ch_a, NEWLINE, Ch_b, QUOTE>>, "String">>,
     <<<<Digit(1)>>, "Number">>, <<<<Digit(1), Digit(2)>>, "Number">>,
     <<<<Ch_t, Ch_r, Ch_u, Ch_e>>, "True">>,
     <<<<Ch_f, Ch_a, Ch_l, Ch_s, Ch_e>>, "False">>,
     <<<<Ch_n, Ch_u, Ch_l, Ch_l>>, "Null">>}

\* what separates a lexeme from the one before it
Seps == {<<>>, <<SPACE>>, <<NEWLINE>>}

Pieces1 == {Piece(sep, lx[1], lx[2]) : sep \in Seps, lx \in PieceLexemes}

\* the largest number of lexemes of a drawn token sequence
MaxPieces == 2

\* {"key": "value"} of the example in the documentation of Lexer
DocExample ==
    <<Piece(<<>>, <<LBRACE>>, "LeftBrace"),
      Piece(<<>>, <<QUOTE, Ch_k, Ch_e, Ch_y, QUOTE>>, "String"),
      Piece(<<>>, <<COLON>>, "Colon"),
      Piece(<<SPACE>>, <<QUOTE, Ch_v, Ch_a, Ch_l, Ch_u, Ch_e, QUOTE>>, "String"),
      Piece(<<>>, <<RBRACE>>, "RightBrace")>>

\* two numbers with nothing between them are one run
Merged(ps) ==
    \E k \in 1..(Len(ps) - 1) :
        ps[k].data = "Number" /\ ps[k + 1].data = "Number" /\ ps[k + 1].sep = <<>>

PieceSeqs ==
    {ps \in UNION {[1..n -> Pieces1] : n \in 1..MaxPieces} : ~Merged(ps)} \cup {DocExample}

PiecesText(ps) == Concat([k \in 1..Len(ps) |-> ps[k].sep \o ps[k].text])

\* g draws a sequence of lexemes
TokensInput(g) ==
    \E ps \in PieceSeqs : g = LexGen("tokens", <<>>, PiecesText(ps), <<>>, ps)

LexInput(g) ==
    RunInput(g) \/ LiteralInput(g) \/ StringInput(g) \/ KeywordInput(g) \/ TokensInput(g)

LexText(g) == g.pre \o g.body \o g.post

\* no Parser is used
NoParser == parser = Parser_new(<<>>) /\ hist = <<>>

LexInit ==
    /\ LexInput(gen)
    /\ lexer = [CharReader_new(LexText(gen)) EXCEPT !.trace = TRUE]
    /\ toks = <<>>
    /\ NoParser
    /\ NoPadded

\* what a caller sees of a read() call; rest is the input left after it and
\* ops the calls it made to the character reader
TokenOutcome(r) ==
    [tag |-> r.tag, data |-> r.data, str |-> r.str, num |-> r.num, line |-> r.line,
     pos |-> r.pos, name |-> r.name, rest |-> Remaining(r.rd), ops |-> r.rd.log]

\* read() returns r: the lexer is left as the call left it, the record of
\* its calls is handed over to toks
ReadReturned(r) ==
    /\ lexer' = [r.rd EXCEPT !.log = <<>>]
    /\ toks' = Append(toks, TokenOutcome(r))

\* one call of Lexer::read; a panic ends the session
Read ==
    /\ Len(toks) < MaxReads
    /\ \A k \in 1..Len(toks) : toks[k].tag # "Panic"
    /\ ReadReturned(Lexer_read(lexer))
    /\ UNCHANGED <<gen, parser, hist, padded, padHist>>

LexNext == Read

LexSpec == LexInit /\ [][LexNext]_vars

(***************************************************************************)
(* The reference of a lexer session: positions counted on the input text,  *)
(* values computed from the parts a literal was written from.              *)
(***************************************************************************)
\* the number of newline characters of a text
Newlines(text) == Cardinality({k \in 1..Len(text) : text[k] = NEWLINE})

\* the index of the last newline character of a text, 0 when it has none
LastNewline(text) ==
    LET N == {k \in 1..Len(text) : text[k] = NEWLINE}
    IN  IF N = {} THEN 0 ELSE CHOOSE k \in N : \A j \in N : j <= k

\* the line and the column the character at index idx of a text is read at
LineAt(text, idx) == 1 + Newlines(SubSeq(text, 1, idx - 1))

ColAt(text, idx) == idx - LastNewline(SubSeq(text, 1, idx - 1))

\* the line and the column the reader stands at when a text is exhausted
EndLine(text) == 1 + Newlines(text)

EndCol(text) == Len(text) - LastNewline(text)

\* the indices of the first and the last character of the body
BodyFirst == Len(gen.pre) + 1

BodyLast == Len(gen.pre) + Len(gen.body)

\* the read() call that starts at the body: the one after the tokens of pre
BodyRead == 1 + Cardinality({k \in 1..Len(gen.pre) : IsTokenStart(gen.pre[k])})

\* the body of the drawn kind has been read
BodyWasRead(kind) == gen.kind = kind /\ Len(toks) >= BodyRead

\* the ranges from the first character of the body to the character at idx
RangeTo(t, idx) ==
    /\ t.line = <<LineAt(LexText(gen), BodyFirst), LineAt(LexText(gen), idx)>>
    /\ t.pos = <<ColAt(LexText(gen), BodyFirst), ColAt(LexText(gen), idx)>>

\* the ranges from the first character of the body to the end of the input
RangeToEnd(t) ==
    /\ t.line = <<LineAt(LexText(gen), BodyFirst), EndLine(LexText(gen))>>
    /\ t.pos = <<ColAt(LexText(gen), BodyFirst), EndCol(LexText(gen))>>

\* the input left before the read() call k
RestBefore(k) == IF k = 1 THEN LexText(gen) ELSE toks[k - 1].rest

\* C11: Lexer.read() never returns Err(Error::EOF); when only characters the
\* lexer skips (or none) are left of the input, read() returns Ok with the
\* EOF token, whose line range and column range both start and end at the
\* position the input is exhausted at.
C11_EOFIsAToken ==
    \A k \in 1..Len(toks) :
        /\ toks[k].tag # "EOF"
        /\ AllSkippable(RestBefore(k)) =>
               /\ toks[k].tag = "Ok"
               /\ toks[k].data = "EOF"
               /\ toks[k].line = <<EndLine(LexText(gen)), EndLine(LexText(gen))>>
               /\ toks[k].pos = <<EndCol(LexText(gen)), EndCol(LexText(gen))>>

\* a token was read, skipped characters were left, and the next read() met
\* the end of the input
C11_Witness ==
    \E k \in 2..Len(toks) :
        /\ toks[k - 1].tag = "Ok"
        /\ toks[k - 1].rest # <<>>
        /\ AllSkippable(toks[k - 1].rest)
        /\ toks[k].data = "EOF"
        /\ toks[k].pos = <<EndCol(LexText(gen)), EndCol(LexText(gen))>>

\* C12: when the input ends before the unescaped closing quote of a string
\* literal, right after a backslash included, read() fails with
\* UnclosedStringLiteral, whose ranges start at the opening quote and end
\* where the input is exhausted (columns 1..5 for the input "true of five
\* characters); it returns no String token and no EOF token.
C12_UnclosedString ==
    /\ (BodyWasRead("string") /\ gen.d.end # "closed") =>
           /\ toks[BodyRead].tag = "UnclosedStringLiteral"
           /\ toks[BodyRead].data = ""
           /\ RangeToEnd(toks[BodyRead])
    /\ (BodyWasRead("string") /\ gen.pre = <<>>
            /\ gen.body = <<QUOTE, Ch_t, Ch_r, Ch_u, Ch_e>>) =>
           /\ toks[1].tag = "UnclosedStringLiteral"
           /\ toks[1].line = <<1, 1>>
           /\ toks[1].pos = <<1, 5>>

\* a string literal on the second line ended with a backslash and the input
C12_Witness ==
    /\ BodyWasRead("string")
    /\ gen.d.end = "cutslash"
    /\ gen.pre = <<NEWLINE, Ch_x>>
    /\ Len(gen.d.items) = 1
    /\ toks[BodyRead].tag = "UnclosedStringLiteral"

\* the text a string literal of the drawn items stands for
ItemsOut(items) == Concat([k \in 1..Len(items) |-> items[k].out])

\* C13: in a string literal a backslash is dropped and the character after it
\* is appended to the token text as it is (an escaped quote does not close
\* the string, no unescape table is applied); every other character up to
\* the closing quote is appended unchanged and in order; the token's ranges
\* run from the opening quote to the closing quote.
C13_EscapeVerbatim ==
    (BodyWasRead("string") /\ gen.d.end = "closed") =>
        /\ toks[BodyRead].tag = "Ok"
        /\ toks[BodyRead].data = "String"
        /\ toks[BodyRead].str = ItemsOut(gen.d.items)
        /\ RangeTo(toks[BodyRead], BodyLast)

\* a string with an escaped quote and an escaped n was read
C13_Witness ==
    /\ BodyWasRead("string")
    /\ gen.d.end = "closed"
    /\ Len(gen.d.items) = 2
    /\ gen.d.items[1].src = <<BACKSLASH, QUOTE>>
    /\ gen.d.items[2].src = <<BACKSLASH, Ch_n>>
    /\ toks[BodyRead].str = <<QUOTE, Ch_n>>

\* the number of the characters of a run that are in the set C
Count(run, C) == Cardinality({k \in 1..Len(run) : run[k] \in C})

\* a run no float is written as: two dots, two exponent marks, a dot after
\* the exponent mark, a sign that stands neither first nor right after the
\* exponent mark, no digit before the exponent mark, or none after it
Malformed(run) ==
    LET E == {k \in 1..Len(run) : run[k] \in {Ch_e, Ch_E}}
        e == IF E = {} THEN Len(run) + 1 ELSE CHOOSE k \in E : \A j \in E : k <= j
    IN  \/ Count(run, {DOT}) > 1
        \/ Count(run, {Ch_e, Ch_E}) > 1
        \/ \E k \in (e + 1)..Len(run) : run[k] = DOT
        \/ \E k \in 2..Len(run) : run[k] = MINUS /\ k # e + 1
        \/ \A k \in 1..(e - 1) : ~IsDigit(run[k])
        \/ e <= Len(run) /\ \A k \in (e + 1)..Len(run) : ~IsDigit(run[k])

\* C14: when a maximal run of number characters does not parse as a float
\* (3.14.14, -3E14E1, --11223), read() fails with InvalidNumber, whose ranges
\* start at the first character of the run and end at its last character
\* (columns 1..7 for those inputs of seven characters).
C14_InvalidNumberRange ==
    /\ (BodyWasRead("run") /\ Malformed(gen.body)) =>
           toks[BodyRead].tag = "InvalidNumber"
    /\ (BodyWasRead("run") /\ toks[BodyRead].tag # "Ok") =>
           /\ toks[BodyRead].tag = "InvalidNumber"
           /\ RangeTo(toks[BodyRead], BodyLast)
    /\ (BodyWasRead("run") /\ gen.body \in TestRuns /\ gen.pre = <<>>) =>
           /\ toks[1].tag = "InvalidNumber"
           /\ toks[1].line = <<1, 1>>
           /\ toks[1].pos = <<1, 7>>

\* a malformed run on the second line, a delimiter after it, was read
C14_Witness ==
    /\ BodyWasRead("run")
    /\ gen.body \in TestRuns
    /\ gen.pre = <<NEWLINE, Ch_x>>
    /\ gen.post = <<COMMA, Ch_x>>
    /\ toks[BodyRead].tag = "InvalidNumber"
    /\ toks[BodyRead].pos = <<2, 8>>

\* C15: when a character of true, false or null after the first differs from
\* the one the keyword requires, read() fails with InvalidToken, which names
\* the attempted keyword and carries the ranges from the keyword's first
\* character to the character that differs; no token is returned.
C15_KeywordMismatch ==
    (BodyWasRead("keyword") /\ gen.d.wrong # 0) =>
        /\ toks[BodyRead].tag = "InvalidToken"
        /\ toks[BodyRead].data = ""
        /\ toks[BodyRead].name
               = (IF gen.d.K = Ch_t THEN "true"
                  ELSE IF gen.d.K = Ch_f THEN "false" ELSE "null")
        /\ RangeTo(toks[BodyRead], BodyLast)

\* fals was followed by a character that is not e
C15_Witness ==
    /\ BodyWasRead("keyword")
    /\ gen.d.K = Ch_f
    /\ gen.d.j = 3
    /\ gen.d.wrong = Ch_x
    /\ toks[BodyRead].tag = "InvalidToken"
    /\ toks[BodyRead].name = "false"

\* the String of one character
CharString(c) ==
    IF c = MINUS THEN "-"
    ELSE IF c = DOT THEN "."
    ELSE IF c = Ch_e THEN "e"
    ELSE IF c = Ch_E THEN "E"
    ELSE IF c = Digit(0) THEN "0"
    ELSE IF c = Digit(1) THEN "1"
    ELSE IF c = Digit(2) THEN "2"
    ELSE IF c = Digit(3) THEN "3"
    ELSE IF c = Digit(4) THEN "4"
    ELSE "?"

RECURSIVE CollectString(_)
\* the String a run of number characters spells
CollectString(run) ==
    IF run = <<>> THEN "" ELSE CharString(Head(run)) \o CollectString(Tail(run))

\* C18: the InvalidNumber error returned for a number run that fails float
\* parsing carries the text of the run (the accumulated characters), together
\* with its ranges.
C18_CarriesRunText ==
    (BodyWasRead("run") /\ toks[BodyRead].tag = "InvalidNumber") =>
        /\ toks[BodyRead].name = CollectString(gen.body)
        /\ RangeTo(toks[BodyRead], BodyLast)

RECURSIVE DecimalValue(_)
\* the number a sequence of decimal digits writes
DecimalValue(ds) ==
    IF ds = <<>> THEN 0 ELSE DecimalValue(SubSeq(ds, 1, Len(ds) - 1)) * 10 + ds[Len(ds)]

\* the value of a number literal as <<m, e>>, m * 10^e, from its parts
LiteralValue(lit) ==
    <<(IF lit.neg THEN -1 ELSE 1) * DecimalValue(lit.int \o lit.frac),
      (IF lit.exp = <<>> THEN 0
       ELSE (IF lit.exp[2] THEN -1 ELSE 1) * DecimalValue(lit.exp[3])) - Len(lit.frac)>>

\* a * 10^a_e and b * 10^b_e are the same number
SameValue(a, b) ==
    IF a[1] = 0 \/ b[1] = 0 THEN a[1] = b[1]
    ELSE IF a[2] >= b[2] THEN a[1] * 10 ^ (a[2] - b[2]) = b[1]
    ELSE a[1] = b[1] * 10 ^ (b[2] - a[2])

\* the literals of test_parse_number with their values: 123, -123, 3.14,
\* -0.01, 1e6 = 1000000.0, -2.5E-3 = -0.0025
TestNumbers ==
    {<<(<<Digit(1), Digit(2), Digit(3)>>), <<123, 0>>>>,
     <<(<<MINUS, Digit(1), Digit(2), Digit(3)>>), <<-123, 0>>>>,
     <<(<<Digit(3), DOT, Digit(1), Digit(4)>>), <<314, -2>>>>,
     <<(<<MINUS, Digit(0), DOT, Digit(0), Digit(1)>>), <<-1, -2>>>>,
     <<(<<Digit(1), Ch_e, Digit(6)>>), <<1000000, 0>>>>,
     <<(<<MINUS, Digit(2), DOT, Digit(5), Ch_E, MINUS, Digit(3)>>), <<-25, -4>>>>}

\* C19: number lexing converts a well-formed literal (sign, digits, fraction,
\* exponent) to the float of the same decimal value, with ranges that cover
\* the literal: 123 -> 123.0 (columns 1..3), -123 -> -123.0, 3.14 -> 3.14,
\* -0.01 -> -0.01, 1e6 -> 1000000.0, -2.5E-3 -> -0.0025 (columns 1..7).
C19_NumberValue ==
    BodyWasRead("literal") =>
        /\ toks[BodyRead].tag = "Ok"
        /\ toks[BodyRead].data = "Number"
        /\ SameValue(toks[BodyRead].num, LiteralValue(gen.d))
        /\ RangeTo(toks[BodyRead], BodyLast)
        /\ \A t \in TestNumbers :
               gen.body = t[1] =>
                   /\ SameValue(toks[BodyRead].num, t[2])
                   /\ gen.pre = <<>> =>
                          /\ toks[1].line = <<1, 1>>
                          /\ toks[1].pos = <<1, Len(t[1])>>

\* -2.5E-3 was read after a delimiter, a delimiter after it
C19_Witness ==
    /\ BodyWasRead("literal")
    /\ gen.body = <<MINUS, Digit(2), DOT, Digit(5), Ch_E, MINUS, Digit(3)>>
    /\ gen.pre = <<COMMA>>
    /\ gen.post = <<COMMA, Ch_x>>
    /\ toks[2].data = "Number"
    /\ toks[2].num = <<-25, -4>>
    /\ toks[2].pos = <<2, 8>>

\* a run with a dot and no digit after it
TrailingDot(run) == \E k \in 1..Len(run) : run[k] = DOT /\ (k = Len(run) \/ ~IsDigit(run[k + 1]))

\* a run with two signs in a row
DoubleSign(run) == \E k \in 1..(Len(run) - 1) : run[k] = MINUS /\ run[k + 1] = MINUS

\* a run with an exponent mark and no digit after it and its sign
MalformedExponent(run) ==
    \E k \in 1..Len(run) :
        /\ run[k] \in {Ch_e, Ch_E}
        /\ LET d == IF k < Len(run) /\ run[k + 1] = MINUS THEN k + 2 ELSE k + 1
           IN  d > Len(run) \/ ~IsDigit(run[d])

\* C20: a number run with a malformed exponent, a double sign or a trailing
\* dot (1e, --1, 1.) is rejected: read() returns InvalidNumber, and no Number
\* token, for every such run.
C20_MalformedRejected ==
    (BodyWasRead("run")
         /\ (MalformedExponent(gen.body) \/ DoubleSign(gen.body) \/ TrailingDot(gen.body))) =>
        /\ toks[BodyRead].tag = "InvalidNumber"
        /\ toks[BodyRead].data # "Number"

RECURSIVE NthRead(_, _)
\* the result of the n-th read() call on a lexer that stands at rd
NthRead(rd, n) ==
    LET r == Lexer_read(rd)
    IN  IF n <= 1 THEN r ELSE NthRead(r.rd, n - 1)

\* the lexer::error::Error kinds read() returns
LexErrorKinds == {"UnclosedStringLiteral", "InvalidToken", "InvalidNumber", "ReaderError"}

\* the parse() call of a step, given the result r of the last read() call it
\* made and its outcome h: the lexer's error is what parse() returns
ErrorPassed(r, h) ==
    /\ r.tag \in LexErrorKinds <=> h.tag = "LexerError"
    /\ r.tag \in LexErrorKinds =>
           /\ h.msg = r.tag
           /\ h.line = r.line
           /\ h.pos = r.pos
           /\ h.name = r.name
           /\ h.node = NoNode

\* C17: every lexer failure raised while parse() runs (unclosed string,
\* invalid token, invalid number, reader failure) is returned by parse() as
\* Error::LexerError with the lexer error's message and ranges; it is never
\* turned into a SyntaxError, a Node or Node::EOF.
C17_LexerErrorPassed ==
    [][Len(hist') = Len(hist) + 1 =>
           ErrorPassed(NthRead(parser.lexer, parser'.reads - parser.reads),
                       hist'[Len(hist')])]_vars

\* an object value was replaced by tx, and parse() returned the InvalidToken
C17_Witness ==
    /\ gen.at > 0
    /\ Len(hist) >= 1
    /\ GenRole = "member"
    /\ gen.lex = <<Ch_t, Ch_x>>
    /\ parser.reads = 4
    /\ hist[1].tag = "LexerError"
    /\ hist[1].msg = "InvalidToken"
    /\ hist[1].name = "true"

(***************************************************************************)
(* Two sessions side by side: one Parser over the text of well-formed      *)
(* documents, a second one over the same text with a run of characters     *)
(* inserted right after one of its tokens; parse() is called on both.      *)
(***************************************************************************)
\* the runs inserted: characters Lexer::read dispatches to no token rule
Junks ==
    {<<SPACE>>, <<NEWLINE, Ch_x>>, <<BACKSLASH, PLUS>>, <<DOT>>, <<Ch_e>>, <<SPACE, Ch_E>>}

\* the scalars of the documents a run is inserted in
PadScalars == {Lit_a, Lit_1, Lit_m2e1, Lit_true}

RECURSIVE Pieces(_)
\* the lexemes of a sequence of documents, a space between any two documents
Pieces(ds) ==
    IF ds = <<>> THEN <<>>
    ELSE IF Len(ds) = 1 THEN Lexemes(Head(ds))
    ELSE Lexemes(Head(ds)) \o <<(<<SPACE>>)>> \o Pieces(Tail(ds))

\* the text of the pieces with the run junk inserted after the piece at
PaddedText(ps, at, junk) ==
    Concat(SubSeq(ps, 1, at)) \o junk \o Concat(SubSeq(ps, at + 1, Len(ps)))

\* g draws well-formed documents, a token of them that is not the last one,
\* and the run inserted after it
PaddedInput(g) ==
    \E m \in 1..MaxNodes : \E f \in ForestsOfSize(PadScalars, m, TRUE) :
        \E b \in 1..(Len(Pieces(f)) - 1) : \E j \in Junks :
            /\ Pieces(f)[b] # <<SPACE>>
            /\ g = [docs |-> f, at |-> b, junk |-> j]

PadInit ==
    /\ PaddedInput(gen)
    /\ parser = Parser_new(Concat(Pieces(gen.docs)))
    /\ hist = <<>>
    /\ padded = Parser_new(PaddedText(Pieces(gen.docs), gen.at, gen.junk))
    /\ padHist = <<>>
    /\ NoLexer

\* parse() on the second Parser returns r
PaddedReturned(r) ==
    /\ padded' = r.ps
    /\ padHist' = Append(padHist, Outcome(r))

\* one call of Parser::parse on each of the two parsers
ParseBoth ==
    /\ Len(hist) < MaxCalls
    /\ \A k \in 1..Len(hist) : hist[k].tag # "Panic" /\ padHist[k].tag # "Panic"
    /\ Returned(Parser_parse(parser))
    /\ PaddedReturned(Parser_parse(padded))
    /\ UNCHANGED <<gen, lexer, toks>>

PadNext == ParseBoth

PadSpec == PadInit /\ [][PadNext]_vars

\* two results of parse() are the same: the same tree, or the same error
SameResult(a, b) ==
    /\ a.tag = b.tag
    /\ a.node = b.node
    /\ a.msg = b.msg
    /\ a.name = b.name

\* C16: inserting a run of whitespace or of other unrecognized characters
\* (every character but the quote, `-`, the digits, t, f, n and the six
\* delimiters) at a boundary between two tokens leaves the result of parse()
\* unchanged.
C16_InsertionUnchanged ==
    \A k \in 1..Len(padHist) : SameResult(hist[k], padHist[k])

\* the inserted run stands right after a number and begins with a number
\* character (`.`, `e`, `E`): the lexer accumulates it into that number's run
ExtendsNumber ==
    /\ IsNumberStart(Pieces(gen.docs)[gen.at][1])
    /\ IsNumberChar(gen.junk[1])

\* C16, amended: inserting such a run at a boundary between two tokens leaves
\* the result of parse() unchanged unless the run begins with `.`, `e` or `E`
\* and is inserted right after a number.
C16_InsertionNotExtendingNumber ==
    ~ExtendsNumber => \A k \in 1..Len(padHist) : SameResult(hist[k], padHist[k])

\* a space and an E were inserted after a number of an array, and both
\* parsers returned the array
C16_Witness ==
    /\ Len(padHist) >= 1
    /\ gen.junk = <<SPACE, Ch_E>>
    /\ gen.docs[1].kind = "Array"
    /\ Len(gen.docs[1].items) = 2
    /\ gen.docs[1].items[1].kind = "Number"
    /\ gen.at = 2
    /\ padHist[1].tag = "Ok"
    /\ padHist[1].node = hist[1].node
    /\ padHist[1].node.kind = "Array"

(***************************************************************************)
(* The reference of a drawn token sequence, and of the calls a read()      *)
(* makes to the character reader.                                          *)
(***************************************************************************)
\* the indices of the first and the last character of the lexeme k of ps
PieceFirst(ps, k) == Len(PiecesText(SubSeq(ps, 1, k - 1))) + Len(ps[k].sep) + 1

PieceLast(ps, k) == Len(PiecesText(SubSeq(ps, 1, k)))

\* the token t is the lexeme k of the drawn sequence, with the ranges of its
\* first and last character
IsPiece(t, k) ==
    /\ t.tag = "Ok"
    /\ t.data = gen.d[k].data
    /\ t.line = <<LineAt(gen.body, PieceFirst(gen.d, k)), LineAt(gen.body, PieceLast(gen.d, k))>>
    /\ t.pos = <<ColAt(gen.body, PieceFirst(gen.d, k)), ColAt(gen.body, PieceLast(gen.d, k))>>

\* the first call the read() t makes is a peek that returns the character
\* at index idx of the input
ExaminesFirst(t, idx) ==
    /\ t.ops # <<>>
    /\ t.ops[1].op = "peek"
    /\ t.ops[1].tag = "Ok"
    /\ t.ops[1].c = LexText(gen)[idx]
    /\ t.ops[1].line = LineAt(LexText(gen), idx)
    /\ t.ops[1].col = ColAt(LexText(gen), idx)

\* C21: number lexing consumes the maximal run of number characters that
\* begins at the first character; the first character outside the set is not
\* consumed and is the first one the next read() examines, so 1, is Number
\* then Comma and 12] is Number then RightBracket.
C21_MaximalRun ==
    /\ \A kind \in {"run", "literal"} :
           BodyWasRead(kind) =>
               /\ toks[BodyRead].tag \in {"Ok", "InvalidNumber"}
               /\ toks[BodyRead].tag = "Ok" => toks[BodyRead].data = "Number"
               /\ RangeTo(toks[BodyRead], BodyLast)
               /\ toks[BodyRead].rest = gen.post
               /\ (gen.post # <<>> /\ Len(toks) > BodyRead) =>
                      ExaminesFirst(toks[BodyRead + 1], BodyLast + 1)
               /\ (gen.post # <<>> /\ gen.post[1] = COMMA /\ Len(toks) > BodyRead) =>
                      /\ toks[BodyRead + 1].tag = "Ok"
                      /\ toks[BodyRead + 1].data = "Comma"
                      /\ toks[BodyRead + 1].pos = <<ColAt(LexText(gen), BodyLast + 1),
                                                     ColAt(LexText(gen), BodyLast + 1)>>
    /\ gen.kind = "tokens" =>
           \A k \in 1..(Len(gen.d) - 1) :
               (gen.d[k].data = "Number" /\ Len(toks) > k) =>
                   /\ IsPiece(toks[k], k)
                   /\ toks[k].rest = SubSeq(gen.body, PieceLast(gen.d, k) + 1, Len(gen.body))
                   /\ IsPiece(toks[k + 1], k + 1)

\* 12] was read as a Number at columns 1..2 and a RightBracket at column 3
C21_Witness ==
    /\ gen.kind = "tokens"
    /\ gen.body = <<Digit(1), Digit(2), RBRACKET>>
    /\ Len(toks) >= 2
    /\ toks[1].data = "Number"
    /\ toks[1].pos = <<1, 2>>
    /\ toks[1].rest = <<RBRACKET>>
    /\ toks[2].data = "RightBracket"
    /\ toks[2].pos = <<3, 3>>

\* C22: when the upcoming characters spell true, false or null, read()
\* returns the True, False or Null token with the line range l..l and the
\* column range c..c+len-1 of the keyword (1..4, 1..5, 1..4 at the start of
\* the input) and consumes exactly the keyword's characters: the character
\* right after the keyword is the first one the next read() examines.
C22_KeywordToken ==
    /\ (BodyWasRead("keyword") /\ gen.d.j = Len(StaticSource(gen.d.K))) =>
           /\ toks[BodyRead].tag = "Ok"
           /\ toks[BodyRead].data = StaticData(gen.d.K)
           /\ toks[BodyRead].line = <<LineAt(LexText(gen), BodyFirst),
                                      LineAt(LexText(gen), BodyFirst)>>
           /\ toks[BodyRead].pos = <<ColAt(LexText(gen), BodyFirst),
                                     ColAt(LexText(gen), BodyFirst) + Len(gen.body) - 1>>
           /\ toks[BodyRead].rest = gen.post
           /\ (gen.post # <<>> /\ Len(toks) > BodyRead) =>
                  ExaminesFirst(toks[BodyRead + 1], BodyLast + 1)
    /\ gen.kind = "tokens" =>
           \A k \in 1..Len(gen.d) :
               (gen.d[k].data \in {"True", "False", "Null"} /\ Len(toks) >= k) =>
                   /\ IsPiece(toks[k], k)
                   /\ toks[k].rest = SubSeq(gen.body, PieceLast(gen.d, k) + 1, Len(gen.body))
                   /\ (Len(toks) > k /\ k < Len(gen.d)) =>
                          ExaminesFirst(toks[k + 1], PieceLast(gen.d, k) + 1)

\* false at the start of the input was read as False at columns 1..5, and
\* the read() after it began at the comma behind it
C22_Witness ==
    /\ gen.kind = "keyword"
    /\ gen.pre = <<>>
    /\ gen.body = <<Ch_f, Ch_a, Ch_l, Ch_s, Ch_e>>
    /\ gen.post = <<COMMA, Ch_x>>
    /\ Len(toks) >= 2
    /\ toks[1].data = "False"
    /\ toks[1].line = <<1, 1>>
    /\ toks[1].pos = <<1, 5>>
    /\ toks[2].ops[1].c = COMMA
    /\ toks[2].data = "Comma"

\* the columns of the tokens read so far
Columns == [k \in 1..Len(toks) |-> toks[k].pos]

\* the tokens of an input read from its start with no error before them: the
\* ranges of each are the (line, column) of the first and of the last
\* character of its lexeme, a structural token starts and ends at the same
\* place
TokenRanges ==
    /\ gen.kind = "tokens" =>
           \A k \in 1..Len(gen.d) : Len(toks) >= k => IsPiece(toks[k], k)
    /\ (gen.kind = "tokens" /\ gen.d = DocExample /\ Len(toks) = 5) =>
           Columns = <<<<1, 1>>, <<2, 6>>, <<7, 7>>, <<9, 15>>, <<16, 16>>>>
    /\ gen.kind # "tokens" =>
           /\ (Len(toks) >= BodyRead /\ toks[BodyRead].tag = "Ok"
               /\ toks[BodyRead].data # "EOF") =>
                  RangeTo(toks[BodyRead], BodyLast)
           /\ (gen.pre = <<COMMA>> /\ Len(toks) >= 1) =>
                  /\ toks[1].data = "Comma"
                  /\ toks[1].line = <<1, 1>>
                  /\ toks[1].pos = <<1, 1>>
    /\ \A k \in 1..Len(toks) :
           (toks[k].tag = "Ok"
            /\ toks[k].data \in {"Colon", "Comma", "LeftBrace", "RightBrace",
                                  "LeftBracket", "RightBracket"}) =>
               /\ toks[k].line[1] = toks[k].line[2]
               /\ toks[k].pos[1] = toks[k].pos[2]

\* the index of the character of the input read at (line, col); 0 when
\* there is none
IndexAt(line, col) ==
    LET I == {i \in 1..Len(LexText(gen)) :
                 LineAt(LexText(gen), i) = line /\ ColAt(LexText(gen), i) = col}
    IN  IF I = {} THEN 0 ELSE CHOOSE i \in I : TRUE

\* the characters a lexeme of the token kind data begins with and ends with
FirstChars(data) ==
    IF data = "String" THEN {QUOTE}
    ELSE IF data = "Number" THEN {c \in ZERO..NINE : TRUE} \cup {MINUS}
    ELSE IF data = "True" THEN {Ch_t}
    ELSE IF data = "False" THEN {Ch_f}
    ELSE IF data = "Null" THEN {Ch_n}
    ELSE {c \in {COLON, COMMA, LBRACE, RBRACE, LBRACKET, RBRACKET} : DelimiterData(c) = data}

LastChars(data) ==
    IF data = "Number" THEN {c \in ZERO..NINE : TRUE} \cup {MINUS, DOT, Ch_e, Ch_E}
    ELSE IF data \in {"True", "False"} THEN {Ch_e}
    ELSE IF data = "Null" THEN {Ch_l}
    ELSE FirstChars(data)

\* the ranges of the token t begin and end at characters of the input that
\* can begin and end a lexeme of its kind
StandsOnLexeme(t) ==
    /\ IndexAt(t.line[1], t.pos[1]) # 0
    /\ IndexAt(t.line[2], t.pos[2]) # 0
    /\ LexText(gen)[IndexAt(t.line[1], t.pos[1])] \in FirstChars(t.data)
    /\ LexText(gen)[IndexAt(t.line[2], t.pos[2])] \in LastChars(t.data)

RECURSIVE LastToken(_, _, _)
\* the ranges <<line, pos>> of the token most recently returned by read()
\* after n more calls on a lexer that stands at rd, rg being the ranges of
\* the one most recently returned before them
LastToken(rd, n, rg) ==
    IF n = 0 THEN rg
    ELSE LET r == Lexer_read(rd)
         IN  LastToken(r.rd, n - 1, IF r.tag = "Ok" THEN <<r.line, r.pos>> ELSE rg)

\* the parser of a step remembers the ranges rg, and a SyntaxError the
\* parse() call h of the step returned carries them
CarriesRange(ps, h, rg) ==
    /\ <<ps.line, ps.pos>> = rg
    /\ h.tag = "SyntaxError" => <<h.line, h.pos>> = rg

\* C24: every SyntaxError returned by parse() carries exactly the line range
\* and the column range of the token most recently returned by the lexer to
\* that parser; a failed read of the lexer leaves the remembered ranges as
\* they were.
C24_SyntaxErrorRange ==
    [][Len(hist') = Len(hist) + 1 =>
           CarriesRange(parser', hist'[Len(hist')],
                        LastToken(parser.lexer, parser'.reads - parser.reads,
                                  <<parser.line, parser.pos>>))]_vars

\* the second parse() call returned a SyntaxError at a token that is not the
\* first of the input, with the ranges the parser remembers
C24_Witness ==
    /\ Len(hist) = 2
    /\ hist[1].tag = "Ok"
    /\ hist[2].tag = "SyntaxError"
    /\ hist[2].pos = parser.pos
    /\ hist[2].line = parser.line
    /\ parser.pos[1] > 1
    /\ parser.reads >= 3

(***************************************************************************)
(* The calls a session made to the character reader, and the number of     *)
(* characters that peek has handed out and that were neither consumed nor  *)
(* handed back.                                                            *)
(***************************************************************************)
\* the calls of the read() calls 1..k, in order
OpsUpTo(k) == Concat([j \in 1..k |-> toks[j].ops])

AllOps == OpsUpTo(Len(toks))

\* the pending count p after the call e
PendingStep(p, e) ==
    IF e.tag # "Ok" THEN p
    ELSE IF e.op = "peek" THEN p + 1
    ELSE IF p > 0 THEN p - 1 ELSE 0

RECURSIVE Pending(_)
\* the pending count after the calls ops, none pending before them
Pending(ops) ==
    IF ops = <<>> THEN 0
    ELSE PendingStep(Pending(SubSeq(ops, 1, Len(ops) - 1)), ops[Len(ops)])

RECURSIVE MaxPending(_, _)
\* the largest pending count met during the calls ops, p pending before them
MaxPending(ops, p) ==
    IF ops = <<>> THEN p
    ELSE LET m == MaxPending(Tail(ops), PendingStep(p, Head(ops)))
         IN  IF m > p THEN m ELSE p

\* the session had no error before the read() call k
CleanBefore(k) == \A j \in 1..(k - 1) : toks[j].tag = "Ok"

\* the keyword the read() call with the calls ops went into parse_static
\* for, 0 when it did not: the first letter is taken by a next() that is
\* not unwrapped, right after the peek of read()
KeywordOf(ops) ==
    LET I == {i \in 2..Len(ops) : /\ ops[i].op = "read" /\ ~ops[i].expect
                                   /\ ops[i - 1].op = "peek"
                                   /\ ops[i].c \in {Ch_t, Ch_f, Ch_n}}
    IN  IF I = {} THEN 0 ELSE ops[CHOOSE i \in I : \A j \in I : i <= j].c

CutKeyword(j) == toks[j].tag = "Ok" /\ toks[j].data = "EOF" /\ KeywordOf(toks[j].ops) # 0

SameReturn(e, f) == e.tag = f.tag /\ e.c = f.c /\ e.line = f.line /\ e.col = f.col

\* the index in ops of the first call of the run of peeks that ends at i
RECURSIVE PeekRunStart(_, _)
PeekRunStart(ops, i) ==
    IF i > 1 /\ ops[i - 1].op = "peek" THEN PeekRunStart(ops, i - 1) ELSE i

\* the call f is a peek of the character of the input after the one the
\* peek e returned, or of the end of the input when e returned the last one
PeeksNext(e, f) ==
    IF IndexAt(e.line, e.col) < Len(LexText(gen))
    THEN /\ f.tag = "Ok"
         /\ f.c = LexText(gen)[IndexAt(e.line, e.col) + 1]
         /\ IndexAt(f.line, f.col) = IndexAt(e.line, e.col) + 1
    ELSE f.tag = "EOF"

C27_PushbackContract ==
    \A i \in 1..Len(AllOps) :
        AllOps[i].op = "peek_back" =>
            /\ i > 1
            /\ AllOps[i - 1].op = "peek"
            /\ AllOps[i - 1].tag = "Ok"
            /\ AllOps[i].tag = "Ok"
            /\ Pending(SubSeq(AllOps, 1, i - 1)) >= 1

\* a number followed by a comma was read: the comma was peeked and handed back
C27_Witness ==
    /\ gen.kind = "literal"
    /\ gen.post = <<COMMA, Ch_x>>
    /\ Len(toks) = BodyRead
    /\ toks[BodyRead].data = "Number"
    /\ toks[BodyRead].ops[Len(toks[BodyRead].ops)].op = "peek_back"
    /\ toks[BodyRead].ops[Len(toks[BodyRead].ops)].tag = "Ok"
    /\ toks[BodyRead].ops[Len(toks[BodyRead].ops) - 1].c = COMMA

\* the characters the read() call k consumed
Consumed(k) ==
    {toks[k].ops[i].c : i \in {i \in 1..Len(toks[k].ops) :
                                  toks[k].ops[i].op = "read" /\ toks[k].ops[i].tag = "Ok"}}

\* C28: read() returns the EOF token only when every character it consumed
\* during the call was a skippable one: when the input ends in the middle of
\* a keyword (after tru or nul) read() reports an error, not the EOF token.
C28_EOFOnlyAfterSkipped ==
    \A k \in 1..Len(toks) :
        /\ (toks[k].tag = "Ok" /\ toks[k].data = "EOF") =>
               \A c \in Consumed(k) : ~IsTokenStart(c)
        /\ (/\ gen.kind = "keyword" /\ k = BodyRead /\ gen.d.wrong = 0
            /\ gen.d.j < Len(StaticSource(gen.d.K))) =>
               toks[k].tag \notin {"Ok", "Panic"}

\* the indices of the calls of ops whose result the lexer unwraps
Unwrapped(ops) == {i \in 1..Len(ops) : ops[i].op = "read" /\ ops[i].expect}

\* C29: on an input whose source reports no failure, and in a session with
\* no earlier error, read() never panics: each next().expect(..) and each
\* discard_next is made right after a successful peek of the character it
\* returns, and the unreachable!() arms of parse_static and parse_delimiter
\* are never reached.
C29_NoPanic ==
    \A k \in 1..Len(toks) :
        CleanBefore(k) =>
            /\ toks[k].tag # "Panic"
            /\ \A i \in Unwrapped(toks[k].ops) :
                   /\ toks[k].ops[i].tag = "Ok"
                   /\ i > 1
                   /\ toks[k].ops[i - 1].op = "peek"
                   /\ SameReturn(toks[k].ops[i - 1], toks[k].ops[i])

\* a string with an escape and the comma after it were read with no error:
\* quotes, backslash, text and comma were all taken by unwrapped calls
C29_Witness ==
    /\ gen.kind = "string"
    /\ gen.pre = <<SPACE>>
    /\ gen.body = <<QUOTE, BACKSLASH, QUOTE, Ch_a, QUOTE>>
    /\ gen.post = <<COMMA, Ch_x>>
    /\ Len(toks) = 3
    /\ CleanBefore(4)
    /\ Cardinality(Unwrapped(toks[1].ops)) = 5
    /\ Cardinality(Unwrapped(toks[2].ops)) = 1
    /\ toks[3].data = "EOF"
    /\ Cardinality(Unwrapped(toks[3].ops)) = 1

(***************************************************************************)
(* The caller that calls parse() again and again until it returns         *)
(* Node::EOF or an error, the repeated calls the claim is about.  One      *)
(* call more than the input has characters is allowed for: a session that  *)
(* has not ended by then stays as it is.                                   *)
(***************************************************************************)
\* a parse() call returned Node::EOF or an error
Ended == \E k \in 1..Len(hist) : hist[k].tag # "Ok" \/ IsOkEOF(hist[k])

\* another parse() call is made
CanParse ==
    /\ ~Ended
    /\ Len(hist) <= Len(InputOf(gen))
    /\ \A k \in 1..Len(hist) : hist[k].tag # "Panic"

ParseOn ==
    /\ CanParse
    /\ Returned(Parser_parse(parser))
    /\ UNCHANGED <<gen, lexer, toks, padded, padHist>>

LiveNext == ParseOn

\* weak fairness of ParseOn, written out: a call that can be made is made.
\* CanParse is the enabling condition of ParseOn, and the steps that
\* lengthen hist are the ParseOn steps.
ParseOnFair == []<>(~CanParse) \/ []<><<Len(hist') = Len(hist) + 1>>_vars

LiveSpec == Init /\ [][LiveNext]_vars /\ ParseOnFair

\* the parse() call of a step made n read() calls and left m characters
\* fewer in the reader: it read a token, every token it read but the last
\* call's took a character, and a value took one
Progress(h, n, m) ==
    /\ n >= 1
    /\ n <= m + 1
    /\ IsOkValue(h) => m >= 1

\* C30: for every finite input each read() and parse() call terminates with
\* a token, a node or an error, every iteration of the loops consuming at
\* least one character or token, so that repeated parse() calls eventually
\* return Node::EOF or an error.
C30_Terminates ==
    /\ [][Len(hist') = Len(hist) + 1 =>
              Progress(hist'[Len(hist')],
                       parser'.reads - parser.reads,
                       Len(Remaining(parser.lexer)) - Len(Remaining(parser'.lexer)))]_vars
    /\ <>Ended

\* three values were returned, and then Node::EOF
C30_Witness ==
    /\ Len(hist) = 4
    /\ \A k \in 1..3 : IsOkValue(hist[k])
    /\ IsOkEOF(hist[4])
    /\ ~CanParse
    /\ Remaining(parser.lexer) = <<>>
====
